---- MODULE Spec2Model ----
(***************************************************************************)
(* Orchestration runtime of explainagents: the per-agent tool-calling loop *)
(* (src/src/core/agent.py) and the workflow coordinators                   *)
(* (src/src/core/orchestrator.py).                                         *)
(*                                                                         *)
(* Conventions of the model                                                *)
(*  - a Python str is a sequence of tokens (each token a TLA+ string), so  *)
(*    f-strings are concatenations and `in` on strings is IsSubstring;     *)
(*  - an Optional value is a sequence of length 0 (None) or 1;             *)
(*  - a dict is a sequence of [k, v] entries in insertion order;           *)
(*  - timestamps (datetime.now()) are left out of history and log records. *)
(***************************************************************************)
EXTENDS Integers, Sequences, FiniteSets, TLC

(***************************************************************************)
(* Bounds of the model.                                                    *)
(***************************************************************************)
\* largest config.max_iterations an agent of Spec is configured with
MaxIter == 2
\* longest agent_sequence a SequentialWorkflow of SpecSeq is configured with
MaxSeq == 2
\* execute calls made on one SingleAgentWorkflow object
MaxExec == 2
\* specialists configured after the supervisor of a HierarchicalWorkflow
MaxSpecialists == 2
\* longest tool_names list given to get_tools_for_agent
MaxNames == 2

(***************************************************************************)
(* Constants of the program.                                               *)
(***************************************************************************)
\* config_loader.py line 97: workflow.max_iterations when the file has none
DefaultWorkflowMaxIterations == 10

(***************************************************************************)
(* Python values and strings.                                              *)
(***************************************************************************)
None == <<>>
Some(v) == <<v>>

PyStr(s) == [t |-> "str", s |-> s]
PyNone == [t |-> "none"]
PyList(xs) == [t |-> "list", items |-> xs]
PyDict == [t |-> "dict"]
PyInt(n) == [t |-> "int", n |-> n]

\* s occurs in t as a contiguous run of tokens (Python: s in t)
IsSubstring(s, t) ==
    \E i \in 0..(Len(t) - Len(s)) : SubSeq(t, i + 1, i + Len(s)) = s

RECURSIVE Join(_, _)
\* sep.join(parts) for a sequence of strings
Join(parts, sep) ==
    IF parts = <<>> THEN <<>>
    ELSE IF Len(parts) = 1 THEN parts[1]
    ELSE parts[1] \o sep \o Join(Tail(parts), sep)

RECURSIVE Quoted(_)
\* the JSON text of each str of a list
Quoted(xs) ==
    IF xs = <<>> THEN <<>>
    ELSE << <<"\"">> \o Head(xs) \o <<"\"">> >> \o Quoted(Tail(xs))

\* json.dumps of the values the model uses (whitespace left out)
JsonDumps(v) ==
    CASE v.t = "dict" -> <<"{", "}">>
      [] v.t = "list" -> <<"[">> \o Join(Quoted(v.items), <<",">>) \o <<"]">>
      [] v.t = "int"  -> <<"1">>
      [] v.t = "none" -> <<"null">>
      [] OTHER        -> <<"\"">> \o v.s \o <<"\"">>

\* str(v), as an f-string renders a value
StrOf(v) ==
    CASE v.t = "str"  -> v.s
      [] v.t = "none" -> <<"None">>
      [] v.t = "int"  -> <<"1">>
      [] OTHER        -> JsonDumps(v)

(***************************************************************************)
(* json.loads on token strings over  1  {  }  [  ]  : a value is 1, {},    *)
(* [] or [value]; anything else, trailing tokens included, is a            *)
(* JSONDecodeError.                                                         *)
(***************************************************************************)
ParseFail == [ok |-> FALSE, val |-> PyNone, rest |-> <<>>]

RECURSIVE ParseValue(_)
ParseValue(s) ==
    IF s = <<>> THEN ParseFail
    ELSE IF Head(s) = "1" THEN [ok |-> TRUE, val |-> PyInt(1), rest |-> Tail(s)]
    ELSE IF Head(s) = "{" THEN
        IF Len(s) >= 2 /\ s[2] = "}"
        THEN [ok |-> TRUE, val |-> PyDict, rest |-> SubSeq(s, 3, Len(s))]
        ELSE ParseFail
    ELSE IF Head(s) = "[" THEN
        IF Len(s) >= 2 /\ s[2] = "]"
        THEN [ok |-> TRUE, val |-> PyList(<<>>), rest |-> SubSeq(s, 3, Len(s))]
        ELSE LET inner == ParseValue(Tail(s)) IN
             IF inner.ok /\ inner.rest # <<>> /\ Head(inner.rest) = "]"
             THEN [ok |-> TRUE, val |-> PyList(<<inner.val>>), rest |-> Tail(inner.rest)]
             ELSE ParseFail
    ELSE ParseFail

\* [ok, val]: ok = FALSE stands for json.JSONDecodeError
JsonLoads(s) ==
    LET p == ParseValue(s) IN
    IF p.ok /\ p.rest = <<>> THEN [ok |-> TRUE, val |-> p.val]
    ELSE [ok |-> FALSE, val |-> PyNone]

(***************************************************************************)
(* dicts in insertion order                                                *)
(***************************************************************************)
DictHas(d, k) == \E i \in 1..Len(d) : d[i].k = k
DictGet(d, k) == d[CHOOSE i \in 1..Len(d) : d[i].k = k].v
\* d.get(k): the value, or None
DictGetOrNone(d, k) == IF DictHas(d, k) THEN DictGet(d, k) ELSE PyNone
\* d[k] = v: replaces the value of an existing key in place, else appends
DictSet(d, k, v) ==
    IF DictHas(d, k)
    THEN [i \in 1..Len(d) |-> IF d[i].k = k THEN [k |-> k, v |-> v] ELSE d[i]]
    ELSE Append(d, [k |-> k, v |-> v])
DictKeys(d) == [i \in 1..Len(d) |-> d[i].k]

(***************************************************************************)
(* The completion gateway, seen from the agent: a stub that answers each   *)
(* complete() call with any completion of Completions, or raises.          *)
(***************************************************************************)
Usage(i, o, t) == [input_tokens |-> i, output_tokens |-> o, total_tokens |-> t]
ZeroUsage == Usage(0, 0, 0)

ToolCall(id, name, arguments) == [id |-> id, name |-> name, arguments |-> arguments]
\* one well-formed call of a tool
TC_foo == ToolCall("c1", "foo", PyStr(<<"{", "}">>))
\* a tool no registry holds
TC_ghost == ToolCall("c2", "ghost", PyStr(<<"{", "}">>))
\* arguments that are not JSON
TC_badjson == ToolCall("c3", "foo", PyStr(<<"{">>))
\* arguments that are JSON but no mapping
TC_nonmap == ToolCall("c4", "bar", PyStr(<<"1">>))
\* arguments already decoded
TC_dict == ToolCall("c5", "foo", PyDict)
\* one well-formed call of a second tool
TC_bar == ToolCall("c6", "bar", PyStr(<<"{", "}">>))

Completion(content, tool_calls, usage) ==
    [content |-> content, tool_calls |-> tool_calls, usage |-> usage]

Completions ==
    { Completion(<<"x">>, <<>>, Usage(3, 2, 5)),
      Completion(<<"{", "}">>, <<>>, Usage(1, 1, 2)),
      Completion(<<>>, <<TC_foo>>, Usage(2, 1, 4)),
      Completion(<<"[", "1", "]">>, <<TC_ghost, TC_badjson, TC_nonmap, TC_dict>>,
                 Usage(1, 0, 1)),
      Completion(<<"x">>, <<TC_bar>>, Usage(0, 1, 1)) }

\* what a complete() call can do: return a completion, or raise (None)
GatewayOutcomes == {Some(c) : c \in Completions} \cup {None}

\* what the body of a tool function can do once it is invoked
ToolOutcomes ==
    { [raised |-> FALSE, val |-> PyDict, msg |-> <<>>],
      [raised |-> FALSE, val |-> PyStr(<<"r">>), msg |-> <<>>],
      [raised |-> TRUE, val |-> PyNone, msg |-> <<"boom">>] }

(***************************************************************************)
(* AgentConfig and Agent                                                   *)
(***************************************************************************)
AgentConfig(name, tools, max_iterations, temperature, structured_output) ==
    [name |-> name, system_prompt |-> <<"You are ", name>>, tools |-> tools,
     max_iterations |-> max_iterations, temperature |-> temperature,
     structured_output |-> structured_output]

\* a config together with the registry the constructor is given
AgentSetup(config, tool_registry) == [config |-> config, tool_registry |-> tool_registry]

ToolLists == {<<>>, <<"foo">>, <<"foo", "bar">>}
Registries == {{}, {"foo"}, {"foo", "bar"}}
Temperatures == {None, Some(7)}
StructuredOutputs ==
    {None, Some([enabled |-> TRUE, schema |-> "StructuredAnalysis"]),
     Some([enabled |-> FALSE, schema |-> "StructuredAnalysis"])}

AgentNames == {"A", "B"}

VARIABLES
    agents,          \* name -> AgentSetup: what each Agent is constructed from
    built,           \* name -> "no" | "ok" | "raised": outcome of Agent.__init__
    history,         \* name -> self.history of that Agent
    run_pc,          \* where the current Agent.run is
    run_agent,       \* the Agent whose run is current
    run_id,          \* number of Agent.run calls started so far
    messages, iteration, final_response, all_tool_calls, total_usage,
    pending,         \* index in response["tool_calls"] of the call to execute next
    run_result,      \* None, or Some(dict returned by Agent.run)
    calls,           \* every complete() call received by the gateway stub
    invoked,         \* every tool function invocation made (ncalls: the number of
                     \* complete() calls made before it)
    wf_pc,           \* where the current Workflow.execute is
    wf_seq,          \* config["agent_sequence"]
    wf_i,            \* loop index i of SequentialWorkflow.execute
    task,            \* the task given to execute
    context, wf_usage, all_agent_histories, final_result,
    execution_log,   \* self.execution_log of the Workflow
    run_inputs,      \* (message, context) of every Agent.run call, in call order
    wf_result,       \* None, or Some(dict returned by execute)
    wf_type,         \* the Workflow subclass: "single" | "sequential" | "hierarchical"
    wf_max_iterations, \* config["max_iterations"] of the Workflow
    plan_text,       \* plan_text of HierarchicalWorkflow.execute
    specialist_results, \* specialist_results of HierarchicalWorkflow.execute
    exec_count,      \* number of execute calls started on the Workflow object
    log_start,       \* len(self.execution_log) when the current execute began
    stub,            \* None, or Some(script): what the gateway stub and the tool
                     \* functions answer when they are scripted
    prev_result,     \* the caller's copy of the result of an earlier Agent.run
    lib_in, lib_out  \* arguments and outcome of a call of a library function

agentVars == <<agents, built, history>>
runVars == <<run_pc, run_agent, run_id, messages, iteration, final_response,
             all_tool_calls, total_usage, pending, run_result, run_inputs>>
stubVars == <<calls, invoked>>
wfVars == <<wf_pc, wf_seq, wf_i, task, context, wf_usage, all_agent_histories,
            final_result, execution_log, wf_result, wf_type, wf_max_iterations, plan_text,
            specialist_results, exec_count, log_start>>
envVars == <<stub, prev_result, lib_in, lib_out>>
vars == <<agentVars, runVars, stubVars, wfVars, envVars>>

Config == agents[run_agent].config
Registry == agents[run_agent].tool_registry

\* a constructor without the validation loop
ConfigToolsUnchecked(setup) == TRUE

\* Agent.__init__, lines 66-69: every configured tool is in the registry
ConfigToolsValid(setup) ==
    \A i \in 1..Len(setup.config.tools) : setup.config.tools[i] \in setup.tool_registry

\* Agent._format_context
FormatContext(ctx) ==
    Join([i \in 1..Len(ctx) |->
            ctx[i].k \o <<": ">> \o
            (IF ctx[i].v.t \in {"dict", "list"} THEN JsonDumps(ctx[i].v) ELSE StrOf(ctx[i].v))],
         <<"\n">>)

\* Agent.run, lines 88-99; ctx is None or Some(dict)
InitialMessages(message, ctx) ==
    IF ctx # None /\ ctx[1] # <<>>
    THEN << [role |-> "user",
             content |-> PyStr(<<"Context from previous steps:\n">> \o FormatContext(ctx[1])
                               \o <<"\n\nTask: ">> \o message)] >>
    ELSE << [role |-> "user", content |-> PyStr(message)] >>

\* Agent._get_tool_schemas: None, or Some(list of the schemas, named by their tool)
ToolSchemas(setup) ==
    LET tools == setup.config.tools
        schemas == SelectSeq(tools, LAMBDA n : n \in setup.tool_registry)
    IN IF tools = <<>> THEN None
       ELSE IF schemas # <<>> THEN Some(schemas) ELSE None

\* Agent._requires_structured_output
RequiresStructuredOutput(config) ==
    IF config.structured_output = None THEN FALSE
    ELSE config.structured_output[1].enabled

\* the loop bound taken one too low
LoopGuardShort(it, max_iterations) == it + 1 < max_iterations

\* an iteration budget that the interactions recorded in self.history use up
LoopGuardSharedBudget(it, max_iterations) ==
    it + Len(history[run_agent]) < max_iterations

\* a loop bounded by the max_iterations of the workflow's config
LoopGuardWorkflowBound(it, max_iterations) == it < wf_max_iterations

\* the condition of the while loop, line 113
LoopGuard(it, max_iterations) == it < max_iterations

\* the running total replaced by the last call's usage
AddUsageOverwrite(total, u) == u

\* lines 127-129 and 300-302
AddUsage(total, u) ==
    [input_tokens |-> total.input_tokens + u.input_tokens,
     output_tokens |-> total.output_tokens + u.output_tokens,
     total_tokens |-> total.total_tokens + u.total_tokens]

\* a completion without tool calls that does not end the loop
NoToolCallsIgnored(response) == FALSE

\* line 143: the completion ends the loop
NoToolCalls(response) == response.tool_calls = <<>>

\* lines 149-164: the assistant message that carries the tool-call requests
AssistantMessage(response) ==
    [role |-> "assistant",
     content |-> IF response.content # <<>> THEN PyStr(response.content) ELSE PyNone,
     tool_calls |->
        [i \in 1..Len(response.tool_calls) |->
            [id |-> response.tool_calls[i].id, type |-> "function",
             function |->
                [name |-> response.tool_calls[i].name,
                 arguments |-> IF response.tool_calls[i].arguments.t = "str"
                               THEN response.tool_calls[i].arguments.s
                               ELSE JsonDumps(response.tool_calls[i].arguments)]]]]

\* the fallback of lines 187-192
SentinelResponse ==
    Completion(<<"Maximum iterations reached">>, <<>>, ZeroUsage)

\* Agent._execute_tool up to the call of the tool function: what comes of the
\* lookup and of the decoding of the arguments
ToolDispatch(tool_registry, tool_name, arguments) ==
    IF tool_name \notin tool_registry
    THEN [kind |-> "error", msg |-> <<"Tool '", tool_name, "' not found">>]
    ELSE LET dec == IF arguments.t = "str" THEN JsonLoads(arguments.s)
                    ELSE [ok |-> TRUE, val |-> arguments]
         IN IF ~dec.ok
            THEN [kind |-> "error", msg |-> <<"Invalid JSON arguments: ">> \o arguments.s]
            ELSE IF dec.val.t # "dict"
            THEN [kind |-> "error", msg |-> <<"argument after ** must be a mapping">>]
            ELSE [kind |-> "invoke", msg |-> <<>>]

\* an except clause that catches the lookup and decoding errors only
ToolResultNarrowCatch(d, out) ==
    IF d.kind = "error"
    THEN [escapes |-> FALSE, content |-> <<"Error executing tool: ">> \o d.msg]
    ELSE IF out.raised
    THEN [escapes |-> TRUE, content |-> <<>>]
    ELSE [escapes |-> FALSE,
          content |-> IF out.val.t = "dict" THEN JsonDumps(out.val) ELSE StrOf(out.val)]

\* lines 172-176: the try/except around _execute_tool. d is the dispatch, out the
\* outcome of the tool function when it is invoked. escapes = an exception
\* leaves run
ToolResult(d, out) ==
    IF d.kind = "error"
    THEN [escapes |-> FALSE, content |-> <<"Error executing tool: ">> \o d.msg]
    ELSE IF out.raised
    THEN [escapes |-> FALSE, content |-> <<"Error executing tool: ">> \o out.msg]
    ELSE [escapes |-> FALSE,
          content |-> IF out.val.t = "dict" THEN JsonDumps(out.val) ELSE StrOf(out.val)]

\* a tool message that does not carry the id of its request
ToolMessageUncorrelated(tool_call, content) ==
    [role |-> "tool", tool_call_id |-> "call", name |-> tool_call.name,
     content |-> PyStr(content)]

\* lines 179-184
ToolMessage(tool_call, content) ==
    [role |-> "tool", tool_call_id |-> tool_call.id, name |-> tool_call.name,
     content |-> PyStr(content)]

IntLabel(n) == [t |-> "int", n |-> n]
StrLabel(s) == [t |-> "str", s |-> s]

\* lines 132-137 and 305-310
HistoryRecord(label, msgs, response) ==
    [iteration |-> label, messages |-> msgs, response |-> response]

\* what the gateway stub records of a complete() call
CallRecord(label, msgs, tools, json_schema, temperature, outcome) ==
    [run |-> run_id, agent |-> run_agent, label |-> label, messages |-> msgs,
     tools |-> tools, json_schema |-> json_schema, temperature |-> temperature,
     outcome |-> outcome]

\* line 123
LoopTemperature(config) ==
    IF config.temperature # None THEN config.temperature[1] ELSE 0

\* the agent's own temperature passed on to the finalization call
FinalizeTemperatureFromConfig(config) == LoopTemperature(config)

\* line 296
FinalizeTemperature(config) == 0

\* line 290-297: tools are not passed to the finalization call
FinalizeTools(setup) == None

\* lines 279-280: the schema class that config.structured_output names in
\* evaluation.schemas (the name is taken to be one the module defines)
FinalizeSchema(config) == Some(config.structured_output[1].schema)

\* an error marker that drops the text it could not parse
StructuredDataNoRaw(content) ==
    LET p == JsonLoads(content) IN
    IF p.ok THEN p.val
    ELSE [t |-> "dict", error |-> <<"Failed to parse structured output: ">>,
          raw_content |-> <<>>]

\* lines 312-320
StructuredData(content) ==
    LET p == JsonLoads(content) IN
    IF p.ok THEN p.val
    ELSE [t |-> "dict", error |-> <<"Failed to parse structured output: ">>,
          raw_content |-> content]

(***************************************************************************)
(* Agent.run. A run is suspended at its calls of the gateway and of tool   *)
(* functions; each action below is one such call together with the code   *)
(* that follows it up to the next call.                                    *)
(***************************************************************************)

\* a return that hands out the latest interaction record only
AfterLoopLatestRecord(a, fr, tcs, usage, hist) ==
    LET resp == IF fr = None THEN SentinelResponse ELSE fr[1] IN
    /\ final_response' = Some(resp)
    /\ IF RequiresStructuredOutput(agents[a].config)
       THEN /\ run_pc' = "finalize"
            /\ run_result' = None
       ELSE /\ run_pc' = "returned"
            /\ run_result' = Some([content |-> resp.content, tool_calls |-> tcs,
                                   usage |-> usage,
                                   history |-> IF hist = <<>> THEN <<>>
                                               ELSE <<hist[Len(hist)]>>])

\* a hand-over that finalizes only when the loop ended on a completion without
\* tool calls
AfterLoopFinalizeOnNaturalStop(a, fr, tcs, usage, hist) ==
    LET resp == IF fr = None THEN SentinelResponse ELSE fr[1] IN
    /\ final_response' = Some(resp)
    /\ IF RequiresStructuredOutput(agents[a].config) /\ fr # None /\ fr[1].tool_calls = <<>>
       THEN /\ run_pc' = "finalize"
            /\ run_result' = None
       ELSE /\ run_pc' = "returned"
            /\ run_result' = Some([content |-> resp.content, tool_calls |-> tcs,
                                   usage |-> usage, history |-> hist])

\* a return that hands out the requests of the last completion only
AfterLoopLastRequests(a, fr, tcs, usage, hist) ==
    LET resp == IF fr = None THEN SentinelResponse ELSE fr[1] IN
    /\ final_response' = Some(resp)
    /\ IF RequiresStructuredOutput(agents[a].config)
       THEN /\ run_pc' = "finalize"
            /\ run_result' = None
       ELSE /\ run_pc' = "returned"
            /\ run_result' = Some([content |-> resp.content, tool_calls |-> resp.tool_calls,
                                   usage |-> usage, history |-> hist])

\* lines 186-209, reached when the loop has ended: the fallback response, then
\* either the hand-over to _finalize_with_structured_output or the return
AfterLoop(a, fr, tcs, usage, hist) ==
    LET resp == IF fr = None THEN SentinelResponse ELSE fr[1] IN
    /\ final_response' = Some(resp)
    /\ IF RequiresStructuredOutput(agents[a].config)
       THEN /\ run_pc' = "finalize"
            /\ run_result' = None
       ELSE /\ run_pc' = "returned"
            /\ run_result' = Some([content |-> resp.content, tool_calls |-> tcs,
                                   usage |-> usage, history |-> hist])

\* The call agent.run(message, context) up to the first gateway call: lines 88-113
RunBegin(a, message, ctx) ==
    /\ run_agent' = a
    /\ run_id' = run_id + 1
    /\ run_inputs' = Append(run_inputs, [agent |-> a, message |-> message, context |-> ctx])
    /\ messages' = InitialMessages(message, ctx)
    /\ all_tool_calls' = <<>>
    /\ total_usage' = ZeroUsage
    /\ iteration' = 0
    /\ pending' = 0
    /\ IF LoopGuard(0, agents[a].config.max_iterations)
       THEN /\ run_pc' = "loop"
            /\ final_response' = None
            /\ run_result' = None
       ELSE AfterLoop(a, None, <<>>, ZeroUsage, history[a])

\* What the gateway stub answers to the next complete() call of the current
\* run: anything when it is not scripted, else the next entry of its script,
\* which every run goes through from the start
GatewayAnswers ==
    IF stub = None THEN GatewayOutcomes
    ELSE LET n == Cardinality({i \in DOMAIN calls : calls[i].run = run_id})
         IN {stub[1].gateway[n + 1]}

\* What the function of a registered tool does when it is invoked: anything
\* when it is not scripted, else what the script fixes for that tool
ToolAnswers(name) ==
    IF stub = None THEN ToolOutcomes ELSE {stub[1].tool[name]}

\* a failed completion that is tried again
AfterGatewayErrorRetry == "loop"

\* lines 117-124: nothing in run catches an exception of client.complete, so
\* the run ends with it
AfterGatewayError == "raised"

\* One pass of the loop from line 114 to the break of line 144 or to the
\* assistant message of line 164 (and on, when the for loop of line 167 has
\* nothing to go through)
GatewayLoopCall ==
    /\ run_pc = "loop"
    /\ \E out \in GatewayAnswers :
        LET it == iteration + 1
            schemas == ToolSchemas(agents[run_agent])
        IN
        /\ iteration' = it
        /\ calls' = Append(calls, CallRecord(IntLabel(it), messages, schemas, None,
                                             LoopTemperature(Config), out))
        /\ IF out = None
           THEN /\ run_pc' = AfterGatewayError
                /\ UNCHANGED <<history, messages, final_response, all_tool_calls,
                               total_usage, pending, run_result>>
           ELSE LET response == out[1]
                    usage == AddUsage(total_usage, response.usage)
                    hist == Append(history[run_agent],
                                   HistoryRecord(IntLabel(it), messages, response))
                IN
                /\ total_usage' = usage
                /\ history' = [history EXCEPT ![run_agent] = hist]
                /\ UNCHANGED all_tool_calls
                /\ IF NoToolCalls(response)
                   THEN /\ UNCHANGED <<messages, pending>>
                        /\ AfterLoop(run_agent, Some(response), all_tool_calls, usage, hist)
                   ELSE /\ messages' = Append(messages, AssistantMessage(response))
                        /\ IF response.tool_calls # <<>>
                           THEN /\ pending' = 1
                                /\ final_response' = Some(response)
                                /\ run_pc' = "tool"
                                /\ run_result' = None
                           ELSE /\ pending' = 0
                                /\ IF LoopGuard(it, Config.max_iterations)
                                   THEN /\ final_response' = Some(response)
                                        /\ run_pc' = "loop"
                                        /\ run_result' = None
                                   ELSE AfterLoop(run_agent, Some(response), all_tool_calls,
                                                  usage, hist)
    /\ UNCHANGED <<agents, built, run_agent, run_id, run_inputs, invoked, wfVars, envVars>>

NoOutcome == [raised |-> FALSE, val |-> PyNone, msg |-> <<>>]

\* One pass of the for loop of lines 167-184; after the last tool call of the
\* completion, the loop condition of line 113 is checked again
ToolStep ==
    /\ run_pc = "tool"
    /\ LET response == final_response[1]
           tool_call == response.tool_calls[pending]
           d == ToolDispatch(Registry, tool_call.name, tool_call.arguments)
       IN
       \E out \in (IF d.kind = "invoke" THEN ToolAnswers(tool_call.name) ELSE {NoOutcome}) :
        LET r == ToolResult(d, out)
            tcs == Append(all_tool_calls, tool_call)
            msgs == Append(messages, ToolMessage(tool_call, r.content))
        IN
        /\ all_tool_calls' = tcs
        /\ invoked' = IF d.kind = "invoke"
                      THEN Append(invoked, [run |-> run_id, agent |-> run_agent,
                                            ncalls |-> Len(calls),
                                            call |-> tool_call, raised |-> out.raised])
                      ELSE invoked
        /\ IF r.escapes
           THEN /\ run_pc' = "raised"
                /\ UNCHANGED <<messages, pending, final_response, run_result>>
           ELSE /\ messages' = msgs
                /\ IF pending < Len(response.tool_calls)
                   THEN /\ pending' = pending + 1
                        /\ UNCHANGED <<run_pc, final_response, run_result>>
                   ELSE /\ pending' = 0
                        /\ IF LoopGuard(iteration, Config.max_iterations)
                           THEN UNCHANGED <<final_response, run_result>> /\ run_pc' = "loop"
                           ELSE AfterLoop(run_agent, final_response, tcs, total_usage,
                                          history[run_agent])
    /\ UNCHANGED <<agents, built, history, run_agent, run_id, run_inputs, iteration,
                   total_usage, calls, wfVars, envVars>>

SynthesisInstruction ==
    [role |-> "user",
     content |-> PyStr(<<"Based on your analysis above, provide your final response in the required structured format.">>)]

\* Agent._finalize_with_structured_output, lines 279-328
FinalizeCall ==
    /\ run_pc = "finalize"
    /\ \E out \in GatewayAnswers :
        LET synthesis_messages == Append(messages, SynthesisInstruction) IN
        /\ calls' = Append(calls, CallRecord(StrLabel("synthesis"), synthesis_messages,
                                             FinalizeTools(agents[run_agent]),
                                             FinalizeSchema(Config),
                                             FinalizeTemperature(Config), out))
        /\ IF out = None
           THEN /\ run_pc' = "raised"
                /\ UNCHANGED <<history, total_usage, run_result>>
           ELSE LET structured_response == out[1]
                    usage == AddUsage(total_usage, structured_response.usage)
                    hist == Append(history[run_agent],
                                   HistoryRecord(StrLabel("synthesis"), synthesis_messages,
                                                 structured_response))
                IN
                /\ total_usage' = usage
                /\ history' = [history EXCEPT ![run_agent] = hist]
                /\ run_pc' = "returned"
                /\ run_result' = Some([content |-> structured_response.content,
                                       structured_data |-> StructuredData(structured_response.content),
                                       tool_calls |-> all_tool_calls,
                                       usage |-> usage, history |-> hist])
    /\ UNCHANGED <<agents, built, run_agent, run_id, run_inputs, messages, iteration,
                   final_response, all_tool_calls, pending, invoked, wfVars, envVars>>

(***************************************************************************)
(* Spec: one Agent, constructed from any configuration and registry, then  *)
(* run once by a direct caller.                                            *)
(***************************************************************************)
DirectTask == <<"t">>
DirectContexts ==
    { None, Some(<<>>),
      Some(<< [k |-> <<"k1">>, v |-> PyStr(<<"v1">>)],
              [k |-> <<"k3">>, v |-> PyList(<< <<"a">> >>)] >>) }

\* no execute call has begun on the Workflow object
WfLocalsFresh ==
    /\ plan_text = <<>>
    /\ specialist_results = <<>>
    /\ exec_count = 0
    /\ log_start = 0

\* the gateway stub and the tools are not scripted, and no library call is made
EnvIdle ==
    /\ stub = None
    /\ prev_result = None
    /\ lib_in = None
    /\ lib_out = None

RunIdle ==
    /\ run_pc = "idle"
    /\ run_agent = "A"
    /\ run_id = 0
    /\ run_inputs = <<>>
    /\ messages = <<>>
    /\ iteration = 0
    /\ final_response = None
    /\ all_tool_calls = <<>>
    /\ total_usage = ZeroUsage
    /\ pending = 0
    /\ run_result = None
    /\ calls = <<>>
    /\ invoked = <<>>

Init ==
    /\ \E tools \in ToolLists, reg \in Registries, mi \in 0..MaxIter,
          temp \in Temperatures, so \in StructuredOutputs :
        agents = [n \in {"A"} |-> AgentSetup(AgentConfig(n, tools, mi, temp, so), reg)]
    /\ built = [n \in {"A"} |-> "no"]
    /\ history = [n \in {"A"} |-> <<>>]
    /\ RunIdle
    /\ wf_pc = "none"
    /\ wf_seq = <<>>
    /\ wf_i = 0
    /\ task = <<>>
    /\ context = <<>>
    /\ wf_usage = ZeroUsage
    /\ all_agent_histories = <<>>
    /\ final_result = PyNone
    /\ execution_log = <<>>
    /\ wf_result = None
    /\ wf_type = "none"
    /\ wf_max_iterations = DefaultWorkflowMaxIterations
    /\ WfLocalsFresh
    /\ EnvIdle

\* Agent.__init__
Construct ==
    /\ \E a \in DOMAIN agents :
        /\ built[a] = "no"
        /\ built' = [built EXCEPT ![a] = IF ConfigToolsValid(agents[a]) THEN "ok" ELSE "raised"]
        /\ history' = [history EXCEPT ![a] = <<>>]
    /\ UNCHANGED <<agents, runVars, stubVars, wfVars, envVars>>

\* a caller's agent.run(task, context)
CallRun ==
    /\ wf_pc = "none"
    /\ run_pc = "idle"
    /\ \E a \in DOMAIN agents, ctx \in DirectContexts :
        /\ built[a] = "ok"
        /\ RunBegin(a, DirectTask, ctx)
    /\ UNCHANGED <<agentVars, stubVars, wfVars, envVars>>

Next == Construct \/ CallRun \/ GatewayLoopCall \/ ToolStep \/ FinalizeCall

Spec == Init /\ [][Next]_vars

(***************************************************************************)
(* Workflow and SequentialWorkflow.execute                                 *)
(***************************************************************************)

\* the data argument of execute: a dict with a log_source and no intent_source
Data == << [k |-> <<"log_source">>, v |-> PyStr(<<"app.log">>)] >>

\* The dict object bound to `context` in execute: a log entry holds the
\* object itself, not a copy of it
ContextRef == [ref |-> "context"]

\* a log entry that drops the result of the run
LogEntryWithoutOutput(step_name, agent_name, input_data, output_data) ==
    [step |-> step_name, agent |-> agent_name, input |-> input_data, output |-> None]

\* Workflow._log_step: the entry appended to self.execution_log
LogEntry(step_name, agent_name, input_data, output_data) ==
    [step |-> step_name, agent |-> agent_name, input |-> input_data, output |-> output_data]

\* SequentialWorkflow.execute, lines 116-122
SeqConfigValid(agent_sequence, agts) ==
    /\ agent_sequence # <<>>
    /\ \A i \in 1..Len(agent_sequence) : agent_sequence[i] \in DOMAIN agts

\* lines 125-129
InitialContext(data) ==
    << [k |-> <<"log_source">>, v |-> DictGetOrNone(data, <<"log_source">>)],
       [k |-> <<"intent_source">>, v |-> DictGetOrNone(data, <<"intent_source">>)],
       [k |-> <<"available_data">>, v |-> PyList(DictKeys(data))] >>

\* every agent given the original task alone
SeqAgentTaskOriginal(i, prev, tsk) == tsk

\* lines 141-144; i is the index of enumerate (from 0), prev is final_result
SeqAgentTask(i, prev, tsk) ==
    IF i = 0 THEN tsk
    ELSE <<"Previous agent output: ">> \o StrOf(prev) \o <<"\n\nOriginal task: ">> \o tsk

\* line 153: the key under which an agent's content enters the context
OutputKey(agent_name) == <<agent_name, "_output">>

\* line 153
SeqUpdateContext(ctx, agent_name, content) ==
    DictSet(ctx, OutputKey(agent_name), PyStr(content))

\* a total that keeps the usage of the latest run only
WfAddUsageLast(total, u) == u

\* lines 157-159
WfAddUsage(total, u) ==
    [input_tokens |-> total.input_tokens + u.input_tokens,
     output_tokens |-> total.output_tokens + u.output_tokens,
     total_tokens |-> total.total_tokens + u.total_tokens]

\* line 148: agent.run has returned, so execute goes on; an exception raised in
\* run is caught nowhere in execute
AgentRunReturned == run_pc = "returned"

\* lines 138-148 for index i (from 0): the task, the start entry, the call of run
SeqStartAgent(i, ctx, prev, log) ==
    LET agent_name == wf_seq[i + 1]
        agent_task == SeqAgentTask(i, prev, task)
    IN
    /\ wf_i' = i
    /\ execution_log' = Append(log,
            LogEntry(<<"agent_", ToString(i + 1), "_start">>, agent_name,
                     Some([task |-> agent_task, context |-> ContextRef]), None))
    /\ RunBegin(agent_name, agent_task, Some(ctx))

\* execute(task, data) up to the first agent.run: lines 114-148
SeqExecute ==
    /\ wf_pc = "idle"
    /\ wf_type = "sequential"
    /\ IF ~SeqConfigValid(wf_seq, agents)
       THEN /\ wf_pc' = "raised"
            /\ UNCHANGED <<wf_i, context, wf_usage, all_agent_histories, final_result,
                           execution_log, runVars>>
       ELSE /\ wf_pc' = "running"
            /\ context' = InitialContext(Data)
            /\ wf_usage' = ZeroUsage
            /\ all_agent_histories' = <<>>
            /\ final_result' = PyNone
            /\ SeqStartAgent(0, InitialContext(Data), PyNone, execution_log)
    /\ exec_count' = exec_count + 1
    /\ log_start' = Len(execution_log)
    /\ UNCHANGED <<agentVars, stubVars, wf_seq, task, wf_result, wf_type, wf_max_iterations, plan_text,
                   specialist_results, envVars>>

\* execute from the return of agent.run (line 148) to the next agent.run, or
\* to the return of execute (lines 150-167)
SeqResume ==
    /\ wf_pc = "running"
    /\ AgentRunReturned
    /\ LET agent_name == wf_seq[wf_i + 1]
           result == run_result[1]
           log == Append(execution_log,
                    LogEntry(<<"agent_", ToString(wf_i + 1), "_complete">>, agent_name,
                             None, Some(result)))
           ctx == SeqUpdateContext(context, agent_name, result.content)
           usage == WfAddUsage(wf_usage, result.usage)
           hists == all_agent_histories \o result.history
       IN
       /\ context' = ctx
       /\ final_result' = PyStr(result.content)
       /\ wf_usage' = usage
       /\ all_agent_histories' = hists
       /\ IF wf_i + 1 < Len(wf_seq)
          THEN /\ SeqStartAgent(wf_i + 1, ctx, PyStr(result.content), log)
               /\ UNCHANGED <<wf_pc, wf_result>>
          ELSE /\ wf_pc' = "returned"
               /\ wf_result' = Some([result |-> PyStr(result.content),
                                     execution_log |-> log,
                                     agent_history |-> hists, usage |-> usage])
               /\ execution_log' = log
               /\ run_pc' = "idle"
               /\ UNCHANGED <<wf_i, run_agent, run_id, messages, iteration, final_response,
                              all_tool_calls, total_usage, pending, run_result, run_inputs>>
    /\ UNCHANGED <<agentVars, stubVars, wf_seq, task, wf_type, wf_max_iterations, plan_text,
                   specialist_results, exec_count, log_start, envVars>>

(***************************************************************************)
(* SpecSeq: a SequentialWorkflow over two constructed agents, A with a     *)
(* tool and B with structured output, executed once.                       *)
(***************************************************************************)
SeqAgents ==
    [n \in AgentNames |->
        IF n = "A"
        THEN AgentSetup(AgentConfig(n, <<"foo">>, 1, Some(7), None), {"foo"})
        ELSE AgentSetup(AgentConfig(n, <<>>, 1, None,
                                    Some([enabled |-> TRUE, schema |-> "StructuredAnalysis"])),
                        {})]

\* agent_sequence: any list of at most MaxSeq names, Z naming no agent
AgentSequences ==
    UNION {[1..k -> AgentNames \cup {"Z"}] : k \in 0..MaxSeq}

InitSeq ==
    /\ agents = SeqAgents
    /\ built = [n \in AgentNames |-> "ok"]
    /\ history = [n \in AgentNames |-> <<>>]
    /\ RunIdle
    /\ wf_pc = "idle"
    /\ wf_seq \in AgentSequences
    /\ wf_i = 0
    /\ task = <<"t">>
    /\ context = <<>>
    /\ wf_usage = ZeroUsage
    /\ all_agent_histories = <<>>
    /\ final_result = PyNone
    /\ execution_log = <<>>
    /\ wf_result = None
    /\ wf_type = "sequential"
    /\ wf_max_iterations = DefaultWorkflowMaxIterations
    /\ WfLocalsFresh
    /\ EnvIdle

NextSeq == SeqExecute \/ SeqResume \/ GatewayLoopCall \/ ToolStep \/ FinalizeCall

SpecSeq == InitSeq /\ [][NextSeq]_vars

(***************************************************************************)
(* SingleAgentWorkflow.execute                                             *)
(***************************************************************************)

\* the agent named last in agent_sequence
SingleAgentNameLast(agent_sequence) == agent_sequence[Len(agent_sequence)]

\* line 68, for a config that has the key agent_sequence
SingleAgentName(agent_sequence) == agent_sequence[1]

\* lines 68-71: indexing an empty agent_sequence raises IndexError, a first
\* name that is no key of self.agents raises ValueError
SingleConfigValid(agent_sequence, agts) ==
    /\ agent_sequence # <<>>
    /\ SingleAgentName(agent_sequence) \in DOMAIN agts

\* execute(task, data) up to agent.run: lines 68-85
SingleExecute ==
    /\ wf_pc \in {"idle", "returned"}
    /\ wf_type = "single"
    /\ exec_count < MaxExec
    /\ exec_count' = exec_count + 1
    /\ log_start' = Len(execution_log)
    /\ IF ~SingleConfigValid(wf_seq, agents)
       THEN /\ wf_pc' = "raised"
            /\ UNCHANGED <<context, execution_log, runVars>>
       ELSE /\ wf_pc' = "single"
            /\ context' = InitialContext(Data)
            /\ execution_log' = Append(execution_log,
                    LogEntry(<<"start">>, SingleAgentName(wf_seq),
                             Some([task |-> task, context |-> ContextRef]), None))
            /\ RunBegin(SingleAgentName(wf_seq), task, Some(InitialContext(Data)))
    /\ UNCHANGED <<agentVars, stubVars, wf_seq, wf_i, task, wf_usage, all_agent_histories,
                   final_result, wf_result, wf_type, wf_max_iterations, plan_text, specialist_results,
                   envVars>>

\* execute from the return of agent.run to its own return: lines 85-97
SingleResume ==
    /\ wf_pc = "single"
    /\ AgentRunReturned
    /\ LET result == run_result[1]
           log == Append(execution_log,
                    LogEntry(<<"complete">>, SingleAgentName(wf_seq), None, Some(result)))
       IN
       /\ execution_log' = log
       /\ wf_usage' = result.usage
       /\ wf_result' = Some([result |-> PyStr(result.content),
                             execution_log |-> log,
                             agent_history |-> result.history,
                             usage |-> result.usage])
    /\ wf_pc' = "returned"
    /\ run_pc' = "idle"
    /\ UNCHANGED <<agentVars, stubVars, wf_seq, wf_i, task, context, all_agent_histories,
                   final_result, wf_type, wf_max_iterations, plan_text, specialist_results, exec_count,
                   log_start, envVars, run_agent, run_id, messages, iteration,
                   final_response, all_tool_calls, total_usage, pending, run_result,
                   run_inputs>>

(***************************************************************************)
(* HierarchicalWorkflow.execute                                            *)
(***************************************************************************)
\* the specialists taken from the end of agent_sequence backwards
SpecialistNamesReversed(agent_sequence) ==
    LET rest == Tail(agent_sequence) IN
    [i \in 1..Len(rest) |-> rest[Len(rest) + 1 - i]]

\* line 198
SpecialistNames(agent_sequence) == Tail(agent_sequence)

\* lines 194-201
HierConfigValid(agent_sequence, agts) ==
    /\ Len(agent_sequence) >= 2
    /\ agent_sequence[1] \in DOMAIN agts

\* lines 261-263: a name that is no key of self.agents is passed over; the
\* plan is not looked at
SpecialistSelected(name, agts, plan) == name \in DOMAIN agts

\* the first line of a prompt that has no surrounding whitespace
FirstLine(prompt) ==
    LET nl == {i \in 1..Len(prompt) : prompt[i] = "\n"} IN
    IF nl = {} THEN prompt
    ELSE SubSeq(prompt, 1, (CHOOSE i \in nl : \A j \in nl : i <= j) - 1)

\* HierarchicalWorkflow._get_specialist_capabilities
SpecialistCapabilities(names, agts) ==
    LET known == SelectSeq(names, LAMBDA n : n \in DOMAIN agts) IN
    Join([i \in 1..Len(known) |->
            <<"- ", known[i], ": ">> \o FirstLine(agts[known[i]].config.system_prompt)],
         <<"\n">>)

\* lines 206-212
HierContext(data, names, agts) ==
    InitialContext(data) \o
    << [k |-> <<"available_specialists">>,
        v |-> PyList([i \in 1..Len(names) |-> <<names[i]>>])],
       [k |-> <<"specialist_capabilities">>,
        v |-> PyStr(SpecialistCapabilities(names, agts))] >>

\* lines 218-239
PlanningTask(tsk, names, capabilities) ==
    <<"Task: ">> \o tsk
    \o <<"\n\nYou are the supervisor. Analyze this task and create an execution plan.\n\nAvailable specialist agents: ">>
    \o Join([i \in 1..Len(names) |-> <<names[i]>>], <<", ">>)
    \o <<"\n\nSpecialist capabilities:\n">> \o capabilities
    \o <<"\n\nCreate a plan by deciding: ... Then wait for their results before synthesizing.">>

\* lines 269-280; results is specialist_results, a dict in insertion order
SpecialistTask(tsk, plan, results, name) ==
    <<"Original task: ">> \o tsk \o <<"\n\nSupervisor's plan:\n">> \o plan \o <<"\n\n">>
    \o (IF results # <<>>
        THEN <<"Previous specialist results:\n">>
             \o Join([i \in 1..Len(results) |->
                        <<"\n">> \o results[i].k \o <<": ">> \o results[i].v \o <<"\n">>],
                     <<>>)
        ELSE <<>>)
    \o <<"\nYour role: Execute your part of the plan as the ", name, " specialist.">>

\* lines 298-308
SynthesisTask(tsk, plan, results) ==
    <<"Original task: ">> \o tsk \o <<"\n\nYour plan was:\n">> \o plan
    \o <<"\n\nSpecialist results:\n">>
    \o Join([i \in 1..Len(results) |->
                <<"\n">> \o results[i].k \o <<":\n">> \o results[i].v \o <<"\n">>],
            <<>>)
    \o <<"\nNow synthesize these results into a final, coherent answer to the original task.">>

\* The for loop of line 261 from position from (1 is the first specialist):
\* the position of the next specialist that is run, or 0 when the loop is over
NextSpecialist(from, names, agts, plan) ==
    LET rest == {j \in from..Len(names) : SpecialistSelected(names[j], agts, plan)} IN
    IF rest = {} THEN 0 ELSE CHOOSE j \in rest : \A k \in rest : j <= k

\* From the head of the for loop of line 261 at position from to the next
\* agent.run: a specialist's (lines 265-284) or, the loop over, the
\* supervisor's synthesis run (lines 298-312)
HierContinue(from, plan, results, log) ==
    LET names == SpecialistNames(wf_seq)
        j == NextSpecialist(from, names, agents, plan)
    IN
    IF j # 0
    THEN LET specialist_task == SpecialistTask(task, plan, results, names[j]) IN
         /\ wf_pc' = "delegating"
         /\ wf_i' = j
         /\ execution_log' = Append(log,
                LogEntry(<<"specialist_", names[j], "_start">>, names[j],
                         Some([task |-> specialist_task]), None))
         /\ RunBegin(names[j], specialist_task, Some(context))
    ELSE LET synthesis_task == SynthesisTask(task, plan, results) IN
         /\ wf_pc' = "synthesis"
         /\ wf_i' = wf_i
         /\ execution_log' = Append(log,
                LogEntry(<<"supervisor_synthesis_start">>, wf_seq[1],
                         Some([task |-> synthesis_task]), None))
         /\ RunBegin(wf_seq[1], synthesis_task, Some(context))

\* execute(task, data) up to the supervisor's planning run: lines 192-243
HierExecute ==
    /\ wf_pc = "idle"
    /\ wf_type = "hierarchical"
    /\ exec_count' = exec_count + 1
    /\ log_start' = Len(execution_log)
    /\ IF ~HierConfigValid(wf_seq, agents)
       THEN /\ wf_pc' = "raised"
            /\ UNCHANGED <<context, wf_usage, all_agent_histories, execution_log, runVars>>
       ELSE LET names == SpecialistNames(wf_seq)
                ctx == HierContext(Data, names, agents)
                planning_task ==
                    PlanningTask(task, names, SpecialistCapabilities(names, agents))
            IN
            /\ wf_pc' = "planning"
            /\ context' = ctx
            /\ wf_usage' = ZeroUsage
            /\ all_agent_histories' = <<>>
            /\ execution_log' = Append(execution_log,
                    LogEntry(<<"supervisor_planning">>, wf_seq[1],
                             Some([task |-> planning_task, context |-> ContextRef]), None))
            /\ RunBegin(wf_seq[1], planning_task, Some(ctx))
    /\ UNCHANGED <<agentVars, stubVars, wf_seq, wf_i, task, final_result, wf_result, wf_type, wf_max_iterations,
                   plan_text, specialist_results, envVars>>

\* execute from the return of an agent.run to the next agent.run, or to its
\* own return: lines 243-261 after planning, 284-295 after a specialist,
\* 312-327 after synthesis
HierResume ==
    /\ wf_pc \in {"planning", "delegating", "synthesis"}
    /\ AgentRunReturned
    /\ LET result == run_result[1]
           usage == WfAddUsage(wf_usage, result.usage)
           hists == all_agent_histories \o result.history
           names == SpecialistNames(wf_seq)
       IN
       /\ wf_usage' = usage
       /\ all_agent_histories' = hists
       /\ IF wf_pc = "planning"
          THEN /\ plan_text' = result.content
               /\ specialist_results' = <<>>
               /\ HierContinue(1, result.content, <<>>,
                    Append(execution_log,
                        LogEntry(<<"supervisor_plan_complete">>, wf_seq[1], None,
                                 Some(result))))
               /\ UNCHANGED <<final_result, wf_result>>
          ELSE IF wf_pc = "delegating"
          THEN LET results == DictSet(specialist_results, <<names[wf_i]>>, result.content) IN
               /\ specialist_results' = results
               /\ HierContinue(wf_i + 1, plan_text, results,
                    Append(execution_log,
                        LogEntry(<<"specialist_", names[wf_i], "_complete">>, names[wf_i],
                                 None, Some(result))))
               /\ UNCHANGED <<plan_text, final_result, wf_result>>
          ELSE LET log == Append(execution_log,
                            LogEntry(<<"supervisor_synthesis_complete">>, wf_seq[1], None,
                                     Some(result)))
               IN
               /\ execution_log' = log
               /\ final_result' = PyStr(result.content)
               /\ wf_result' = Some([result |-> PyStr(result.content),
                                     execution_log |-> log,
                                     agent_history |-> hists, usage |-> usage])
               /\ wf_pc' = "returned"
               /\ run_pc' = "idle"
               /\ UNCHANGED <<wf_i, plan_text, specialist_results, run_agent, run_id,
                              messages, iteration, final_response, all_tool_calls,
                              total_usage, pending, run_result, run_inputs>>
    /\ UNCHANGED <<agentVars, stubVars, wf_seq, task, context, wf_type, wf_max_iterations, exec_count,
                   log_start, envVars>>

(***************************************************************************)
(* SpecWf: a workflow of any of the three kinds over three constructed     *)
(* agents, S without tools, X with one tool and Y with a temperature. A    *)
(* Sequential or Hierarchical workflow is executed once, a SingleAgent     *)
(* workflow up to MaxExec times.                                           *)
(***************************************************************************)
WfAgentNames == {"S", "X", "Y"}

WfAgents ==
    [n \in WfAgentNames |->
        IF n = "S" THEN AgentSetup(AgentConfig(n, <<>>, 1, None, None), {})
        ELSE IF n = "X" THEN AgentSetup(AgentConfig(n, <<"foo">>, 1, None, None), {"foo"})
        ELSE AgentSetup(AgentConfig(n, <<>>, 1, Some(7), None), {})]

\* agent_sequence: empty, or a first name followed by at most MaxSpecialists
\* names, Z naming no agent
WfSequences ==
    {<<>>} \cup
    {<<first>> \o rest :
        first \in {"S", "Z"},
        rest \in UNION {[1..k -> {"X", "Y", "Z"}] : k \in 0..MaxSpecialists}}

InitWf ==
    /\ agents = WfAgents
    /\ built = [n \in WfAgentNames |-> "ok"]
    /\ history = [n \in WfAgentNames |-> <<>>]
    /\ RunIdle
    /\ wf_pc = "idle"
    /\ wf_type \in {"single", "sequential", "hierarchical"}
    /\ wf_max_iterations = DefaultWorkflowMaxIterations
    /\ wf_seq \in WfSequences
    /\ wf_i = 0
    /\ task = <<"t">>
    /\ context = <<>>
    /\ wf_usage = ZeroUsage
    /\ all_agent_histories = <<>>
    /\ final_result = PyNone
    /\ execution_log = <<>>
    /\ wf_result = None
    /\ WfLocalsFresh
    /\ EnvIdle

NextWf ==
    \/ SingleExecute \/ SingleResume
    \/ SeqExecute \/ SeqResume
    \/ HierExecute \/ HierResume
    \/ GatewayLoopCall \/ ToolStep

SpecWf == InitWf /\ [][NextWf]_vars

(***************************************************************************)
(* tools/tool_registry.py                                                  *)
(***************************************************************************)

\* the function names of FILE_TOOLS_SCHEMAS and of SEARCH_TOOLS_SCHEMAS
FILE_TOOLS_SCHEMAS == <<"read_file", "list_files">>
SEARCH_TOOLS_SCHEMAS == <<"search_logs", "get_log_context">>

\* the registry entry of a tool: its function and its schema
ToolEntry(tool_name) == [function |-> tool_name, schema |-> [name |-> tool_name]]

RECURSIVE RegisterTools(_, _, _)
\* one of the two loops of get_tool_registry: a schema whose name is not one
\* of the loop's functions is passed over
RegisterTools(schemas, functions, registry) ==
    IF schemas = <<>> THEN registry
    ELSE RegisterTools(Tail(schemas), functions,
            IF Head(schemas) \in functions
            THEN DictSet(registry, Head(schemas), ToolEntry(Head(schemas)))
            ELSE registry)

\* get_tool_registry
GetToolRegistry ==
    RegisterTools(SEARCH_TOOLS_SCHEMAS, {"search_logs", "get_log_context"},
        RegisterTools(FILE_TOOLS_SCHEMAS, {"read_file", "list_files"}, <<>>))

RECURSIVE SubsetLoopLenient(_, _, _)
SubsetLoopLenient(tool_names, full_registry, agent_registry) ==
    IF tool_names = <<>> THEN [raised |-> FALSE, val |-> Some(agent_registry)]
    ELSE SubsetLoopLenient(Tail(tool_names), full_registry,
            IF DictHas(full_registry, Head(tool_names))
            THEN DictSet(agent_registry, Head(tool_names),
                         DictGet(full_registry, Head(tool_names)))
            ELSE agent_registry)

\* a subset that leaves out the names the full registry does not have
GetToolsForAgentLenient(tool_names) == SubsetLoopLenient(tool_names, GetToolRegistry, <<>>)

RECURSIVE SubsetLoop(_, _, _)
\* the loop of lines 74-77: the ValueError of line 76 ends the call, and
\* agent_registry, a local, is lost with it
SubsetLoop(tool_names, full_registry, agent_registry) ==
    IF tool_names = <<>> THEN [raised |-> FALSE, val |-> Some(agent_registry)]
    ELSE IF ~DictHas(full_registry, Head(tool_names))
    THEN [raised |-> TRUE, val |-> None]
    ELSE SubsetLoop(Tail(tool_names), full_registry,
            DictSet(agent_registry, Head(tool_names),
                    DictGet(full_registry, Head(tool_names))))

\* get_tools_for_agent
GetToolsForAgent(tool_names) == SubsetLoop(tool_names, GetToolRegistry, <<>>)

\* tool_names: any list of at most MaxNames names, invalid_tool being no tool
ToolNameLists ==
    UNION {[1..k -> {"read_file", "list_files", "search_logs", "get_log_context",
                     "invalid_tool"}] : k \in 0..MaxNames}

\* a caller's get_tools_for_agent(tool_names)
CallGetToolsForAgent ==
    /\ lib_in # None
    /\ lib_in[1].fn = "get_tools_for_agent"
    /\ lib_out = None
    /\ lib_out' = Some(GetToolsForAgent(lib_in[1].tool_names))
    /\ UNCHANGED <<agentVars, runVars, stubVars, wfVars, stub, prev_result, lib_in>>

(***************************************************************************)
(* LLMClient.complete. What litellm and ollama say about a model, and what *)
(* the completion backend does with a request, are inputs of the call.     *)
(***************************************************************************)

\* Python truth of an Optional list, dict or str: None and the empty one are false
Truthy(opt) == opt # None /\ opt[1] # <<>>

Providers == {"anthropic", "openai", "ollama"}

\* model identifiers, lower case, as strings of tokens
Models ==
    { <<"claude", "-sonnet-4">>, <<"gpt-4", "o">>, <<"gpt-oss">>, <<"ollama/", "llama3">> }

\* LLMClient._supports_tools; ollama_tools: "tools" is among the capabilities
\* that ollama.show reports
SupportsTools(provider, model, ollama_tools) ==
    IF IsSubstring(<<"claude">>, model) THEN TRUE
    ELSE IF IsSubstring(<<"gpt-4">>, model) \/ IsSubstring(<<"gpt-3.5-turbo">>, model)
            \/ IsSubstring(<<"gpt-5">>, model) THEN TRUE
    ELSE IF provider = "ollama" /\ ollama_tools THEN TRUE
    ELSE FALSE

\* LLMClient._supports_structured_output; has_response_format: response_format
\* is among get_supported_openai_params; response_schema: the answer of
\* supports_response_schema
SupportsStructuredOutput(provider, has_response_format, response_schema) ==
    IF provider = "ollama" THEN TRUE
    ELSE IF has_response_format THEN response_schema
    ELSE FALSE

\* lines 85-100: the ValueError is raised inside the branch taken only when
\* the model supports structured output
RejectsToolsWithSchema(a) ==
    /\ Truthy(a.json_schema)
    /\ SupportsStructuredOutput(a.provider, a.has_response_format, a.response_schema)
    /\ Truthy(a.tools)

\* lines 66-108: the keyword arguments handed to litellm's completion
RequestKwargs(a) ==
    [model |-> IF a.provider = "ollama" /\ Head(a.model) \notin {"ollama/", "ollama_chat/"}
               THEN <<"ollama_chat/">> \o a.model ELSE a.model,
     messages |-> IF Truthy(a.system) /\ a.provider \in {"anthropic", "openai", "ollama"}
                  THEN <<[role |-> "system", content |-> PyStr(a.system[1])]>> \o a.messages
                  ELSE a.messages,
     api_base |-> IF a.provider = "ollama" /\ Truthy(a.base_url) THEN a.base_url ELSE None,
     response_format |->
        IF Truthy(a.json_schema)
           /\ SupportsStructuredOutput(a.provider, a.has_response_format, a.response_schema)
        THEN a.json_schema ELSE None,
     tools |-> IF Truthy(a.tools) /\ SupportsTools(a.provider, a.model, a.ollama_tools)
               THEN a.tools ELSE None,
     tool_choice |-> IF Truthy(a.tools) /\ SupportsTools(a.provider, a.model, a.ollama_tools)
                     THEN Some("auto") ELSE None]

\* LLMClient.complete, lines 64-117: every exception of the body, the
\* ValueError of line 97 included, leaves as Exception("LLM completion failed: ...")
Complete(a) ==
    IF RejectsToolsWithSchema(a)
    THEN [raised |-> TRUE, sent |-> None, response |-> None,
          error |-> <<"LLM completion failed: ", "Cannot use tools with structured output. Structured output is only for final agent response.">>]
    ELSE IF a.backend = None
    THEN [raised |-> TRUE, sent |-> Some(RequestKwargs(a)), response |-> None,
          error |-> <<"LLM completion failed: ", "backend error">>]
    ELSE [raised |-> FALSE, sent |-> Some(RequestKwargs(a)), response |-> a.backend,
          error |-> <<>>]

\* the arguments of a complete() call and the inputs it depends on
CompleteCalls ==
    [ fn : {"complete"},
      provider : Providers,
      base_url : {None, Some(<<"http://localhost:11434">>)},
      model : Models,
      messages : {<<[role |-> "user", content |-> PyStr(<<"t">>)]>>},
      system : {None, Some(<<"You are ", "A">>)},
      tools : {None, Some(<<>>), Some(<<"foo">>)},
      json_schema : {None, Some(<<>>), Some(<<"StructuredAnalysis">>)},
      has_response_format : BOOLEAN,
      response_schema : BOOLEAN,
      ollama_tools : BOOLEAN,
      backend : {None, Some(Completion(<<"x">>, <<>>, Usage(3, 2, 5)))} ]

\* a caller's client.complete(model, messages, system, tools, json_schema)
CallComplete ==
    /\ lib_in # None
    /\ lib_in[1].fn = "complete"
    /\ lib_out = None
    /\ lib_out' = Some(Complete(lib_in[1]))
    /\ UNCHANGED <<agentVars, runVars, stubVars, wfVars, stub, prev_result, lib_in>>

(***************************************************************************)
(* SpecLib: one call of get_tools_for_agent or of LLMClient.complete, with *)
(* any arguments; no agent and no workflow exists.                         *)
(***************************************************************************)
InitLib ==
    /\ agents = <<>>
    /\ built = <<>>
    /\ history = <<>>
    /\ RunIdle
    /\ wf_pc = "none"
    /\ wf_type = "none"
    /\ wf_max_iterations = DefaultWorkflowMaxIterations
    /\ wf_seq = <<>>
    /\ wf_i = 0
    /\ task = <<>>
    /\ context = <<>>
    /\ wf_usage = ZeroUsage
    /\ all_agent_histories = <<>>
    /\ final_result = PyNone
    /\ execution_log = <<>>
    /\ wf_result = None
    /\ WfLocalsFresh
    /\ stub = None
    /\ prev_result = None
    /\ lib_in \in {Some(c) : c \in CompleteCalls}
                  \cup {Some([fn |-> "get_tools_for_agent", tool_names |-> names]) :
                            names \in ToolNameLists}
    /\ lib_out = None

NextLib == CallGetToolsForAgent \/ CallComplete

SpecLib == InitLib /\ [][NextLib]_vars

(***************************************************************************)
(* SpecDet: two agents A and B of one configuration, a gateway stub that   *)
(* answers the calls of every run from one fixed script, and a tool that   *)
(* does the same thing at every invocation. Agent.run is called on A, and  *)
(* when it has ended once more, on A or on B, with the same arguments.     *)
(***************************************************************************)
DetContext ==
    Some(<< [k |-> <<"k1">>, v |-> PyStr(<<"v1">>)],
            [k |-> <<"k3">>, v |-> PyList(<< <<"a">> >>)] >>)

\* the scripts of the stub: an outcome for each complete() call a run can
\* make, and an outcome for the tool foo
StubScripts ==
    [ gateway : [1..(MaxIter + 1) -> GatewayOutcomes],
      tool : [{"foo"} -> ToolOutcomes] ]

InitDet ==
    /\ \E so \in {None, Some([enabled |-> TRUE, schema |-> "StructuredAnalysis"])} :
        agents = [n \in AgentNames |->
                    AgentSetup(AgentConfig("A", <<"foo">>, MaxIter, None, so), {"foo"})]
    /\ built = [n \in AgentNames |-> "ok"]
    /\ history = [n \in AgentNames |-> <<>>]
    /\ RunIdle
    /\ wf_pc = "none"
    /\ wf_type = "none"
    /\ wf_max_iterations = DefaultWorkflowMaxIterations
    /\ wf_seq = <<>>
    /\ wf_i = 0
    /\ task = <<>>
    /\ context = <<>>
    /\ wf_usage = ZeroUsage
    /\ all_agent_histories = <<>>
    /\ final_result = PyNone
    /\ execution_log = <<>>
    /\ wf_result = None
    /\ WfLocalsFresh
    /\ stub \in {Some(sc) : sc \in StubScripts}
    /\ prev_result = None
    /\ lib_in = None
    /\ lib_out = None

\* a caller's first agent.run(task, context) on A and, once that run has
\* ended, its second one on A or on B; the caller keeps how the first ended
CallRunTwice ==
    /\ stub # None
    /\ IF run_id = 0
       THEN /\ run_pc = "idle"
            /\ prev_result' = None
            /\ RunBegin("A", DirectTask, DetContext)
       ELSE /\ run_id = 1
            /\ run_pc \in {"returned", "raised"}
            /\ prev_result' = Some([pc |-> run_pc, result |-> run_result])
            /\ \E a \in AgentNames : RunBegin(a, DirectTask, DetContext)
    /\ UNCHANGED <<agentVars, stubVars, wfVars, stub, lib_in, lib_out>>

NextDet == CallRunTwice \/ GatewayLoopCall \/ ToolStep \/ FinalizeCall

SpecDet == InitDet /\ [][NextDet]_vars

(***************************************************************************)
(* SpecTerm: a SequentialWorkflow of one agent A, configured with any      *)
(* max_iterations up to MaxIter, under a workflow config with either       *)
(* max_iterations. Every call that execute or run is waiting on comes      *)
(* back, by returning or by raising: the steps are weakly fair.            *)
(***************************************************************************)
WorkflowMaxIterations == {0, DefaultWorkflowMaxIterations}

InitTerm ==
    /\ \E mi \in 0..MaxIter,
          so \in {None, Some([enabled |-> TRUE, schema |-> "StructuredAnalysis"])} :
        agents = [n \in {"A"} |->
                    AgentSetup(AgentConfig(n, <<"foo">>, mi, None, so), {"foo"})]
    /\ built = [n \in {"A"} |-> "ok"]
    /\ history = [n \in {"A"} |-> <<>>]
    /\ RunIdle
    /\ wf_pc = "idle"
    /\ wf_type = "sequential"
    /\ wf_max_iterations \in WorkflowMaxIterations
    /\ wf_seq = <<"A">>
    /\ wf_i = 0
    /\ task = <<"t">>
    /\ context = <<>>
    /\ wf_usage = ZeroUsage
    /\ all_agent_histories = <<>>
    /\ final_result = PyNone
    /\ execution_log = <<>>
    /\ wf_result = None
    /\ WfLocalsFresh
    /\ EnvIdle

NextTerm == SeqExecute \/ SeqResume \/ GatewayLoopCall \/ ToolStep \/ FinalizeCall

SpecTerm == InitTerm /\ [][NextTerm]_vars /\ WF_vars(NextTerm)

(***************************************************************************)
(* Properties. They read the run through what the gateway stub recorded.   *)
(***************************************************************************)
Last(q) == q[Len(q)]
IsPrefix(p, q) == Len(p) <= Len(q) /\ SubSeq(q, 1, Len(p)) = p

\* the number of complete() calls made by the r-th Agent.run
CallCount(r) == Cardinality({i \in 1..Len(calls) : calls[i].run = r})

\* the interaction record that Agent.run appends for a complete() call
RecordOf(c) ==
    [iteration |-> c.label, messages |-> c.messages, response |-> c.outcome[1]]

\* the complete() calls of the current run, in order: all, those of the loop,
\* those of the finalization
RunCalls == SelectSeq(calls, LAMBDA c : c.run = run_id)
LoopCalls == SelectSeq(RunCalls, LAMBDA c : c.label.t = "int")
SynthesisCalls == SelectSeq(RunCalls, LAMBDA c : c.label.t = "str")

\* the completions the loop of the current run received
LoopCompletions ==
    LET ok == SelectSeq(LoopCalls, LAMBDA c : c.outcome # None)
    IN [i \in 1..Len(ok) |-> ok[i].outcome[1]]

\* the completions that carried at least one tool-call request
ToolRounds == SelectSeq(LoopCompletions, LAMBDA r : Len(r.tool_calls) >= 1)

\* the loop of the current run is over and no exception has left it
LoopEnded == run_pc \in {"finalize", "returned"} \/ SynthesisCalls # <<>>

\* every call of the loop returned a completion that requests tools
EveryCompletionRequestsTools ==
    /\ Len(LoopCompletions) = Len(LoopCalls)
    /\ Len(ToolRounds) = Len(LoopCalls)

StructuredEnabled ==
    /\ Config.structured_output # None
    /\ Config.structured_output[1].enabled

RECURSIVE ConcatToolCalls(_)
ConcatToolCalls(rs) ==
    IF rs = <<>> THEN <<>> ELSE Head(rs).tool_calls \o ConcatToolCalls(Tail(rs))

RECURSIVE SumField(_, _)
SumField(us, f) ==
    IF us = <<>> THEN 0 ELSE Head(us)[f] + SumField(Tail(us), f)

\* C1 (as stated): a run without structured output, with max_iterations >= 1,
\* whose every completion requested tools, returns the content
\* "Maximum iterations reached".
C1_SentinelAtBound ==
    ( /\ run_pc = "returned"
      /\ ~StructuredEnabled
      /\ Config.max_iterations >= 1
      /\ EveryCompletionRequestsTools )
    => run_result[1].content = <<"Maximum iterations reached">>

\* C2: when every completion requests tools, the loop makes exactly
\* max_iterations gateway calls, and the calls requested by the last
\* completion are executed (their tool messages end the message list) and are
\* in the tool_calls that run returns; with max_iterations = 1 and one request
\* per completion that is 1 gateway call and 1 tool call.
C2_BoundAfterLastTools ==
    ( /\ LoopEnded
      /\ Config.max_iterations >= 1
      /\ EveryCompletionRequestsTools )
    => LET N == Config.max_iterations
           last == Last(LoopCompletions).tool_calls
           k == Len(last)
       IN /\ Len(LoopCalls) = N
          /\ Len(all_tool_calls) >= k
          /\ SubSeq(all_tool_calls, Len(all_tool_calls) - k + 1, Len(all_tool_calls)) = last
          /\ Len(messages) >= k
          /\ \A j \in 1..k :
                LET m == messages[Len(messages) - k + j] IN
                /\ m.role = "tool"
                /\ m.tool_call_id = last[j].id
          /\ \A j \in 1..k :
                (last[j] \in {TC_foo, TC_dict} /\ "foo" \in Registry)
                    => \E v \in 1..Len(invoked) :
                          /\ invoked[v].run = run_id
                          /\ invoked[v].ncalls = N
                          /\ invoked[v].call = last[j]
          /\ run_pc = "returned" => run_result[1].tool_calls = all_tool_calls
          /\ (N = 1 /\ k = 1) => (Len(LoopCalls) = 1 /\ Len(all_tool_calls) = 1)

C2_Witness ==
    /\ run_pc = "returned"
    /\ Config.max_iterations = 2
    /\ EveryCompletionRequestsTools
    /\ Len(LoopCalls) = 2
    /\ Len(run_result[1].tool_calls) = 5

\* C3: when the loop stops on a completion without tool-call requests, the
\* gateway calls of the loop number the tool-call rounds plus 1.
C3_NaturalStopCount ==
    ( /\ LoopEnded
      /\ LoopCompletions # <<>>
      /\ Last(LoopCompletions).tool_calls = <<>> )
    => Len(LoopCalls) = Len(ToolRounds) + 1

C3_Witness ==
    /\ run_pc = "returned"
    /\ Len(LoopCalls) = 2
    /\ Len(ToolRounds) = 1
    /\ Last(LoopCompletions).tool_calls = <<>>

\* C4: each field of the usage that run returns is the sum of that field over
\* the completions of all gateway calls of the run, the finalization call
\* included, and 0 when there was no call.
C4_UsageIsSum ==
    run_pc = "returned" =>
        LET us == [i \in 1..Len(RunCalls) |-> RunCalls[i].outcome[1].usage] IN
        /\ \A i \in 1..Len(RunCalls) : RunCalls[i].outcome # None
        /\ \A f \in {"input_tokens", "output_tokens", "total_tokens"} :
              run_result[1].usage[f] = SumField(us, f)
        /\ RunCalls = <<>> => run_result[1].usage = Usage(0, 0, 0)

C4_Witness ==
    /\ run_pc = "returned"
    /\ Len(LoopCalls) = 2
    /\ Len(SynthesisCalls) = 1
    /\ run_result[1].usage = Usage(6, 4, 11)

\* C5: a requested tool call that names no tool of the registry, or whose
\* arguments are not JSON, or whose tool function raises, does not make run
\* raise: its tool message with an "Error executing tool: " content is
\* appended, the next tool call of the same completion comes next, and after
\* the last one the next gateway call when iterations remain.
C5_ToolFailureAbsorbed ==
    [][ run_pc = "tool" =>
          LET requests == final_response[1].tool_calls
              tool_call == requests[pending]
              unknown == tool_call.name \notin Registry
              undecodable == tool_call.arguments = PyStr(<<"{">>)
              raises == Len(invoked') = Len(invoked) + 1 /\ Last(invoked').raised
          IN (unknown \/ undecodable \/ raises) =>
                /\ run_pc' # "raised"
                /\ Len(messages') = Len(messages) + 1
                /\ SubSeq(messages', 1, Len(messages)) = messages
                /\ Last(messages').role = "tool"
                /\ Last(messages').tool_call_id = tool_call.id
                /\ Last(messages').name = tool_call.name
                /\ Head(Last(messages').content.s) = "Error executing tool: "
                /\ pending < Len(requests) => (run_pc' = "tool" /\ pending' = pending + 1)
                /\ (pending = Len(requests) /\ iteration < Config.max_iterations)
                      => run_pc' = "loop"
      ]_vars

C5_Witness ==
    /\ Len(RunCalls) = 2
    /\ RunCalls[1].outcome # None
    /\ RunCalls[1].outcome[1].tool_calls = <<TC_ghost, TC_badjson, TC_nonmap, TC_dict>>
    /\ \E v \in 1..Len(invoked) : invoked[v].call = TC_dict /\ invoked[v].raised
    /\ Len(messages) >= 6
    /\ \A j \in 3..6 : messages[j].role = "tool"
                       /\ Head(messages[j].content.s) = "Error executing tool: "

\* C6: when a name of config.tools is no key of the registry given to the
\* constructor, the constructor raises: no Agent comes to exist, no run is
\* made on it and no gateway call is made for it.
C6_CtorRejectsUnknownTool ==
    \A a \in DOMAIN agents :
        (\E i \in 1..Len(agents[a].config.tools) :
            agents[a].config.tools[i] \notin agents[a].tool_registry)
        => /\ built[a] \in {"no", "raised"}
           /\ \A k \in 1..Len(run_inputs) : run_inputs[k].agent # a
           /\ \A k \in 1..Len(calls) : calls[k].agent # a
           /\ run_pc = "idle"

C6_Witness ==
    /\ built["A"] = "raised"
    /\ agents["A"].config.tools = <<"foo", "bar">>
    /\ agents["A"].tool_registry = {"foo"}

SynthesisRecords(h) == SelectSeq(h, LAMBDA r : r.iteration = StrLabel("synthesis"))

\* C7: with structured output enabled a run makes exactly one gateway call
\* after its loop, with temperature 0, without tool schemas and with the
\* output schema, and adds one history record labeled "synthesis"; without
\* structured output enabled no such call is made.
C7_OneFinalizationCall ==
    /\ StructuredEnabled =>
          /\ Len(SynthesisCalls) <= 1
          /\ \A i \in 1..Len(RunCalls) :
                RunCalls[i].label.t = "str" =>
                    /\ i = Len(RunCalls)
                    /\ RunCalls[i].label = StrLabel("synthesis")
                    /\ RunCalls[i].temperature = 0
                    /\ RunCalls[i].tools = None
                    /\ RunCalls[i].json_schema = Some("StructuredAnalysis")
          /\ run_pc = "returned" =>
                /\ Len(SynthesisCalls) = 1
                /\ Len(SynthesisRecords(history[run_agent])) = 1
                /\ Last(history[run_agent]).iteration = StrLabel("synthesis")
          /\ run_pc = "finalize" => SynthesisCalls = <<>>
    /\ ~StructuredEnabled =>
          /\ SynthesisCalls = <<>>
          /\ SynthesisRecords(history[run_agent]) = <<>>
          /\ run_pc # "finalize"

C7_Witness ==
    /\ run_pc = "returned"
    /\ StructuredEnabled
    /\ Config.temperature = Some(7)
    /\ Len(LoopCalls) = 2
    /\ LoopCalls[1].temperature = 7
    /\ LoopCalls[1].tools = Some(<<"foo", "bar">>)
    /\ Len(SynthesisCalls) = 1

\* C8: when the text of the finalization completion is not valid JSON, run
\* returns and structured_data is a marker with an error field and the raw
\* text; when it is valid JSON, structured_data is the parsed value.
C8_ParseFailureIsMarker ==
    (SynthesisCalls # <<>> /\ Last(SynthesisCalls).outcome # None) =>
        LET text == Last(SynthesisCalls).outcome[1].content IN
        /\ run_pc = "returned"
        /\ "structured_data" \in DOMAIN run_result[1]
        /\ run_result[1].content = text
        /\ text \in {<<"x">>, <<>>, <<"{", "}">>, <<"[", "1", "]">>}
        /\ text = <<"{", "}">> => run_result[1].structured_data = PyDict
        /\ text = <<"[", "1", "]">> => run_result[1].structured_data = PyList(<<PyInt(1)>>)
        /\ text \in {<<"x">>, <<>>} =>
              /\ "error" \in DOMAIN run_result[1].structured_data
              /\ "raw_content" \in DOMAIN run_result[1].structured_data
              /\ run_result[1].structured_data.raw_content = text

C8_Witness ==
    /\ run_pc = "returned"
    /\ SynthesisCalls # <<>>
    /\ Last(SynthesisCalls).outcome[1].content = <<"x">>
    /\ run_result[1].structured_data.raw_content = <<"x">>

\* C9: a gateway call that raises ends the run and the execute call around
\* it: it is the last gateway call, no tool function is invoked after it, no
\* later agent is run, and execute does not return.
C9_GatewayFailurePropagates ==
    \A i \in 1..Len(calls) :
        calls[i].outcome = None =>
            /\ i = Len(calls)
            /\ run_pc = "raised"
            /\ calls[i].run = run_id
            /\ Len(run_inputs) = run_id
            /\ \A v \in 1..Len(invoked) : invoked[v].ncalls < i
            /\ wf_pc = "running"
            /\ wf_result = None
            /\ Len(execution_log) = 2 * run_id - 1

C9_Witness ==
    /\ wf_seq = <<"B", "A">>
    /\ Len(calls) = 1
    /\ calls[1].outcome = None
    /\ calls[1].agent = "B"
    /\ run_pc = "raised"

\* the content returned by the k-th Agent.run of the execute call
RunContent(k) == execution_log[2 * k].output[1].content

\* the last run before the k-th that was made on the agent of the j-th
LatestRunOf(j, k) ==
    CHOOSE m \in 1..(k - 1) :
        /\ wf_seq[m] = wf_seq[j]
        /\ \A n \in (m + 1)..(k - 1) : wf_seq[n] # wf_seq[j]

KeySet(d) == {d[i].k : i \in 1..Len(d)}

\* C10: in SequentialWorkflow.execute the first agent is run with the
\* original task; every later agent is run once its predecessor has returned,
\* with a task that contains the predecessor's content and the original task
\* and a context holding, for every agent run before it, <name>_output equal
\* to the content that agent returned; no key leaves the context.
C10_SeqThreading ==
    wf_pc \in {"running", "returned"} =>
        \A k \in 1..Len(run_inputs) :
            LET inp == run_inputs[k]
                ctx == inp.context[1]
            IN
            /\ inp.agent = wf_seq[k]
            /\ k = 1 => inp.message = task
            /\ k > 1 =>
                  /\ Len(execution_log) >= 2 * (k - 1)
                  /\ execution_log[2 * (k - 1)].agent = wf_seq[k - 1]
                  /\ execution_log[2 * (k - 1)].output # None
                  /\ IsSubstring(RunContent(k - 1), inp.message)
                  /\ IsSubstring(task, inp.message)
                  /\ inp.message # task
            /\ \A j \in 1..(k - 1) :
                  /\ DictHas(ctx, <<wf_seq[j], "_output">>)
                  /\ DictGet(ctx, <<wf_seq[j], "_output">>) = PyStr(RunContent(LatestRunOf(j, k)))
            /\ \A key \in {<<"log_source">>, <<"intent_source">>, <<"available_data">>} :
                  DictHas(ctx, key)
            /\ k < Len(run_inputs) => KeySet(ctx) \subseteq KeySet(run_inputs[k + 1].context[1])
            /\ k = Len(run_inputs) => KeySet(ctx) \subseteq KeySet(context)

C10_Witness ==
    /\ wf_pc = "returned"
    /\ wf_seq = <<"A", "B">>
    /\ Len(run_inputs) = 2
    /\ RunContent(1) = <<"x">>
    /\ DictGet(run_inputs[2].context[1], <<"A", "_output">>) = PyStr(<<"x">>)

(***************************************************************************)
(* Properties of the workflows, checked under SpecWf.                      *)
(***************************************************************************)

\* the agents on which Agent.run was called, in call order
RunAgents == [k \in 1..Len(run_inputs) |-> run_inputs[k].agent]

AllNamesPresent == \A i \in 1..Len(wf_seq) : wf_seq[i] \in DOMAIN agents

\* the step names and agents the log of a hierarchical execute is to hold for
\* supervisor wf_seq[1] and specialists wf_seq[2..]
HierSteps ==
    << [step |-> <<"supervisor_planning">>, agent |-> wf_seq[1]],
       [step |-> <<"supervisor_plan_complete">>, agent |-> wf_seq[1]] >>
    \o [n \in 1..(2 * (Len(wf_seq) - 1)) |->
          LET x == wf_seq[1 + (n + 1) \div 2] IN
          [step |-> <<"specialist_", x, IF n % 2 = 1 THEN "_start" ELSE "_complete">>,
           agent |-> x]]
    \o << [step |-> <<"supervisor_synthesis_start">>, agent |-> wf_seq[1]],
          [step |-> <<"supervisor_synthesis_complete">>, agent |-> wf_seq[1]] >>

LogSteps ==
    [n \in 1..Len(execution_log) |->
        [step |-> execution_log[n].step, agent |-> execution_log[n].agent]]

Occurrences(q, x) == Cardinality({i \in 1..Len(q) : q[i] = x})

\* C11: in HierarchicalWorkflow.execute with supervisor S and specialists
\* X_1..X_k that are all in the agents map, the runs and the log steps come in
\* the order planning by S, X_1, ..., X_k, synthesis by S; every run begins
\* only when all the runs before it have completed; S is run twice and each
\* specialist once.
C11_HierOrder ==
    (wf_type = "hierarchical" /\ Len(wf_seq) >= 2 /\ AllNamesPresent) =>
        LET order == <<wf_seq[1]>> \o Tail(wf_seq) \o <<wf_seq[1]>> IN
        /\ IsPrefix(RunAgents, order)
        /\ IsPrefix(LogSteps, HierSteps)
        /\ \A n \in 1..Len(execution_log) :
              (execution_log[n].output # None) = (n % 2 = 0)
        /\ Len(execution_log) \in {2 * Len(run_inputs) - 1, 2 * Len(run_inputs)}
        /\ Len(execution_log) = 2 * Len(run_inputs) - 1 => run_pc # "idle"
        /\ wf_pc = "returned" =>
              /\ RunAgents = order
              /\ LogSteps = HierSteps
              /\ Occurrences(RunAgents, wf_seq[1]) = 2 + Occurrences(Tail(wf_seq), wf_seq[1])
              /\ \A i \in 2..Len(wf_seq) :
                    Occurrences(RunAgents, wf_seq[i]) = Occurrences(Tail(wf_seq), wf_seq[i])

C11_Witness ==
    /\ wf_type = "hierarchical"
    /\ wf_seq = <<"S", "X", "Y">>
    /\ wf_pc = "returned"
    /\ RunAgents = <<"S", "X", "Y", "S">>
    /\ Len(execution_log) = 8

\* C12 (as stated): a hierarchical execute that returns has run every name of
\* agent_sequence after the first, in the configured order, between the two
\* runs of the supervisor.
C12_EverySpecialistInvoked ==
    (wf_type = "hierarchical" /\ wf_pc = "returned") =>
        RunAgents = <<wf_seq[1]>> \o Tail(wf_seq) \o <<wf_seq[1]>>

\* C13 (as stated): with an agent_sequence that is empty or holds a name that
\* is no key of the agents map, execute raises before any Agent.run and
\* before any gateway call.
C13_InvalidSequenceRaisesFirst ==
    (wf_seq = <<>> \/ ~AllNamesPresent) =>
        /\ wf_pc \in {"idle", "raised"}
        /\ run_inputs = <<>>
        /\ calls = <<>>

\* C14 (as stated): the execution_log that execute returns holds the entries
\* logged during that call and no entry of an earlier call.
C14_LogOnlyThisCall ==
    wf_pc = "returned" =>
        wf_result[1].execution_log =
            SubSeq(execution_log, log_start + 1, Len(execution_log))

UsageFields == {"input_tokens", "output_tokens", "total_tokens"}

\* the results the Agent.run calls of the execute call have returned so far
RunResults ==
    LET done == SelectSeq(execution_log, LAMBDA e : e.output # None)
    IN [n \in 1..Len(done) |-> done[n].output[1]]

\* the usage total and the returned result against the Agent.run results
UsageAccounted ==
    wf_type \in {"sequential", "hierarchical"} =>
        LET us == [n \in 1..Len(RunResults) |-> RunResults[n].usage] IN
        /\ wf_pc \in {"running", "planning", "delegating", "synthesis", "returned"} =>
              \A f \in UsageFields :
                  /\ wf_usage[f] \in {SumField(us, f),
                                      SumField(SubSeq(us, 1, Len(us) - 1), f)}
                  /\ run_pc = "idle" => wf_usage[f] = SumField(us, f)
        /\ wf_pc = "returned" =>
              /\ Len(RunResults) = Len(run_inputs)
              /\ \A f \in UsageFields : wf_result[1].usage[f] = SumField(us, f)
              /\ wf_result[1].result = PyStr(run_result[1].content)
              /\ run_result[1] = Last(RunResults)

\* no step lowers a field of the usage total
UsageGrows ==
    wf_type \in {"sequential", "hierarchical"} =>
        (\A f \in UsageFields : wf_usage'[f] >= wf_usage[f])

\* C15: in a Sequential or Hierarchical execute, each field of the usage
\* total is the sum of that field over the usage of the Agent.run results so
\* far, and of all of them at the return; the total never decreases; the
\* returned result is the content of the last Agent.run.
C15_WfUsageIsSum == []UsageAccounted /\ [][UsageGrows]_vars

C15_Witness ==
    /\ wf_type = "hierarchical"
    /\ wf_pc = "returned"
    /\ wf_seq = <<"S", "X", "Y">>
    /\ wf_result[1].usage = Usage(7, 4, 12)
    /\ wf_result[1].result = PyStr(<<"x">>)

\* C16: SingleAgentWorkflow.execute runs the agent that agent_sequence names
\* first, once per call, and no other agent; it returns that run's content as
\* result, its usage as usage and its history as agent_history.
C16_SingleRunsFirst ==
    wf_type = "single" =>
        /\ \A k \in 1..Len(run_inputs) :
              /\ run_inputs[k].agent = wf_seq[1]
              /\ run_inputs[k].message = task
        /\ Len(run_inputs) <= exec_count
        /\ wf_pc = "returned" =>
              /\ Len(run_inputs) = exec_count
              /\ wf_result[1].result = PyStr(run_result[1].content)
              /\ wf_result[1].usage = run_result[1].usage
              /\ wf_result[1].agent_history = run_result[1].history

C16_Witness ==
    /\ wf_type = "single"
    /\ wf_seq = <<"S", "X">>
    /\ wf_pc = "returned"
    /\ exec_count = 1
    /\ RunAgents = <<"S">>
    /\ wf_result[1].result = PyStr(<<"x">>)

\* C20 (as stated): the agent_history that a hierarchical execute on fresh
\* agents returns holds one interaction record per gateway call of the
\* execute call, in call order.
C20_HistoryOncePerCall ==
    (wf_type = "hierarchical" /\ wf_pc = "returned") =>
        /\ \A n \in 1..Len(calls) : calls[n].outcome # None
        /\ wf_result[1].agent_history = [n \in 1..Len(calls) |-> RecordOf(calls[n])]

(***************************************************************************)
(* Properties of the library functions, checked under SpecLib.             *)
(***************************************************************************)

\* C17 (as stated): a complete() call given both tool schemas and a
\* structured-output schema raises, whatever the model, and hands no request
\* to the completion backend.
C17_ToolsWithSchemaRejected ==
    ( /\ lib_out # None
      /\ lib_in[1].fn = "complete"
      /\ Truthy(lib_in[1].tools)
      /\ Truthy(lib_in[1].json_schema) )
    => /\ lib_out[1].raised
       /\ lib_out[1].sent = None

\* C19: get_tools_for_agent(names) returns a registry whose keys are exactly
\* the requested names, each with the entry of the full registry, when all
\* names are in the full registry; otherwise it raises and returns nothing.
C19_SubsetExactOrRaise ==
    (lib_out # None /\ lib_in[1].fn = "get_tools_for_agent") =>
        LET names == lib_in[1].tool_names
            requested == {names[i] : i \in 1..Len(names)}
            full == GetToolRegistry
            out == lib_out[1]
        IN
        IF \A n \in requested : DictHas(full, n)
        THEN /\ ~out.raised
             /\ out.val # None
             /\ KeySet(out.val[1]) = requested
             /\ Len(out.val[1]) = Cardinality(requested)
             /\ \A n \in requested : DictGet(out.val[1], n) = DictGet(full, n)
        ELSE /\ out.raised
             /\ out.val = None

C19_Witness ==
    /\ lib_out # None
    /\ lib_in[1].fn = "get_tools_for_agent"
    /\ lib_in[1].tool_names = <<"read_file", "search_logs">>
    /\ ~lib_out[1].raised
    /\ KeySet(lib_out[1].val[1]) = {"read_file", "search_logs"}

(***************************************************************************)
(* Property of two runs, checked under SpecDet.                            *)
(***************************************************************************)

\* C18: with the same configuration, task and context, the same script of
\* completions and a deterministic tool, the second run ends as the first
\* did, after the same number of gateway calls, and returns the same
\* tool_calls and the same content, on the same agent or on a fresh one.
C18_RunDeterministic ==
    (run_id = 2 /\ run_pc \in {"returned", "raised"}) =>
        /\ prev_result # None
        /\ prev_result[1].pc = run_pc
        /\ CallCount(2) = CallCount(1)
        /\ run_pc = "returned" =>
              /\ run_result[1].tool_calls = prev_result[1].result[1].tool_calls
              /\ run_result[1].content = prev_result[1].result[1].content

C18_Witness ==
    /\ run_id = 2
    /\ run_pc = "returned"
    /\ run_agent = "A"
    /\ CallCount(1) = 3
    /\ CallCount(2) = 3
    /\ Len(run_result[1].tool_calls) = 5
    /\ Len(history["A"]) = 6

(***************************************************************************)
(* The execution log as a reader of the returned dict sees it.             *)
(***************************************************************************)

\* What a reader finds where a log entry holds the context dict: the dict as
\* it is now, since orchestrator.py line 146 stores the object and line 153
\* goes on writing into it
Deref(v) == IF v = ContextRef THEN context ELSE v

\* the keys <name>_output of a context
OutputKeys(ctx) == {key \in KeySet(ctx) : Len(key) = 2 /\ key[2] = "_output"}

\* C21 (as stated): in the log that SequentialWorkflow.execute returns, the
\* context recorded in the start entry of agent i holds a <name>_output key
\* only for the agents that ran before agent i.
C21_StartEntryIsSnapshot ==
    (wf_type = "sequential" /\ wf_pc = "returned") =>
        \A i \in 1..Len(wf_seq) :
            LET entry == wf_result[1].execution_log[2 * i - 1] IN
            OutputKeys(Deref(entry.input[1].context))
                \subseteq {OutputKey(wf_seq[j]) : j \in 1..(i - 1)}

(***************************************************************************)
(* Properties of the message list, the history and the returned record of  *)
(* Agent.run, checked under Spec and SpecDet.                              *)
(***************************************************************************)

\* what identifies a message of the list: its role and the calls it is about
Shape(m) ==
    IF m.role = "assistant"
    THEN [role |-> "assistant",
          ids |-> [i \in 1..Len(m.tool_calls) |-> m.tool_calls[i].id],
          names |-> [i \in 1..Len(m.tool_calls) |-> m.tool_calls[i]["function"].name]]
    ELSE IF m.role = "tool"
    THEN [role |-> "tool", id |-> m.tool_call_id, name |-> m.name]
    ELSE [role |-> m.role]

RECURSIVE Blocks(_)
\* for each completion with requests, one assistant message with all of them
\* and then one tool message per request
Blocks(rounds) ==
    IF rounds = <<>> THEN <<>>
    ELSE LET reqs == Head(rounds).tool_calls IN
         << [role |-> "assistant",
             ids |-> [i \in 1..Len(reqs) |-> reqs[i].id],
             names |-> [i \in 1..Len(reqs) |-> reqs[i].name]] >>
         \o [i \in 1..Len(reqs) |-> [role |-> "tool", id |-> reqs[i].id, name |-> reqs[i].name]]
         \o Blocks(Tail(rounds))

\* the tool functions invoked in the current run, in the order of invocation
RunInvoked == SelectSeq(invoked, LAMBDA v : v.run = run_id)

\* the message list of the current run is its first message and then the
\* blocks of the completions received, the last one as far as its calls have
\* been gone through; the invocations follow the order of the requests
MessagesInBlocks ==
    run_pc # "idle" =>
        LET shape == [i \in 1..(Len(messages) - 1) |-> Shape(messages[i + 1])]
            expected == Blocks(ToolRounds)
        IN
        /\ Len(messages) >= 1
        /\ messages[1].role = "user"
        /\ IsPrefix(shape, expected)
        /\ run_pc \in {"loop", "finalize", "returned", "raised"} => shape = expected
        /\ run_pc = "tool" =>
              Len(shape) = Len(expected) - (Len(final_response[1].tool_calls) - pending + 1)
        /\ \A v, w \in 1..Len(RunInvoked) :
              v < w =>
                 LET a == RunInvoked[v]
                     b == RunInvoked[w]
                     reqs == LoopCompletions[a.ncalls].tool_calls
                     pos(id) == CHOOSE i \in 1..Len(reqs) : reqs[i].id = id
                 IN \/ a.ncalls < b.ncalls
                    \/ a.ncalls = b.ncalls /\ pos(a.call.id) < pos(b.call.id)

\* within a run, a step leaves every message of the list where and as it was
MessagesAppendOnly == run_id' = run_id => IsPrefix(messages, messages')

\* C22: after every completion with k >= 1 tool-call requests the message
\* list grows by one assistant message carrying the k requests and then k
\* tool messages with the requests' ids and names in the order received;
\* the tools are executed in that order; no message is removed or changed
\* during the run.
C22_MessagesAppendInOrder == []MessagesInBlocks /\ [][MessagesAppendOnly]_vars

C22_Witness ==
    /\ run_pc = "returned"
    /\ Len(messages) = 8
    /\ Len(ToolRounds) = 2
    /\ Len(RunInvoked) = 2
    /\ RunInvoked[1].call = TC_dict
    /\ RunInvoked[2].call = TC_foo
    /\ messages[7].role = "assistant"
    /\ messages[8].tool_call_id = "c1"

\* the records that the gateway calls answered for agent a leave, in call order
RecordsOf(a) ==
    LET answered == SelectSeq(calls, LAMBDA c : c.agent = a /\ c.outcome # None)
    IN [n \in 1..Len(answered) |-> RecordOf(answered[n])]

\* the history of every agent is the records of its answered gateway calls,
\* and a run returns the history of its agent as it then is
HistoryIsCallLog ==
    /\ \A a \in DOMAIN agents : history[a] = RecordsOf(a)
    /\ run_pc = "returned" => run_result[1].history = history[run_agent]
    /\ (run_pc = "returned" /\ prev_result # None /\ prev_result[1].pc = "returned"
            /\ run_agent = "A")
          => /\ IsPrefix(prev_result[1].result[1].history, run_result[1].history)
             /\ Len(run_result[1].history) = CallCount(1) + CallCount(2)

\* no step removes or changes a record of a history
HistoryAppendOnly == \A a \in DOMAIN agents : IsPrefix(history[a], history'[a])

\* C23: after any sequence of runs on one Agent object its history holds one
\* record per gateway call that the agent made and that returned a
\* completion, loop and finalization calls alike, in call order; no record is
\* removed between runs, so the history a run returns holds the records of
\* the earlier runs on that object too.
C23_HistoryPersists == []HistoryIsCallLog /\ [][HistoryAppendOnly]_vars

C23_Witness ==
    /\ run_id = 2
    /\ run_pc = "returned"
    /\ run_agent = "A"
    /\ StructuredEnabled
    /\ CallCount(1) = 2
    /\ Len(run_result[1].history) = 4
    /\ run_result[1].history[2].iteration = StrLabel("synthesis")
    /\ run_result[1].history[3].iteration = IntLabel(1)

(***************************************************************************)
(* Property of the length of a run, checked under SpecTerm.                *)
(***************************************************************************)

\* the gateway calls of the current run stay within the agent's own bound
RunBounded ==
    /\ Len(LoopCalls) <= Config.max_iterations
    /\ Len(SynthesisCalls) <= 1
    /\ Len(RunCalls) = Len(LoopCalls) + Len(SynthesisCalls)

RunActive == run_pc \in {"loop", "tool", "finalize"}

RunEnded == run_pc \in {"returned", "raised", "idle"}

\* C24: an Agent.run whose gateway and tool calls all come back ends, by
\* returning or raising; it makes at most config.max_iterations gateway calls
\* in its loop and at most one finalization call, whatever the completions
\* hold and whatever max_iterations the workflow's config has.
C24_RunTerminates == []RunBounded /\ (RunActive ~> RunEnded)

C24_Witness ==
    /\ wf_max_iterations = 0
    /\ Config.max_iterations = 2
    /\ run_pc = "returned"
    /\ Len(LoopCalls) = 2
    /\ Len(SynthesisCalls) = 1
    /\ Len(all_tool_calls) = 8

(***************************************************************************)
(* Properties of the finalization and of the tool calls, checked under     *)
(* Spec.                                                                   *)
(***************************************************************************)

\* C25 (as stated): when the loop of a structured-output agent stopped on a
\* completion without tool calls, the messages of the finalization call hold
\* an assistant message with that completion's text, before the instruction
\* that ends them.
C25_FinalTextInFinalization ==
    ( /\ SynthesisCalls # <<>>
      /\ LoopCompletions # <<>>
      /\ Last(LoopCompletions).tool_calls = <<>> )
    => LET msgs == SynthesisCalls[1].messages IN
       /\ Last(msgs) = SynthesisInstruction
       /\ \E i \in 1..(Len(msgs) - 1) :
             /\ msgs[i].role = "assistant"
             /\ msgs[i].content = PyStr(Last(LoopCompletions).content)

\* the names of config.tools of an agent
ConfiguredTools(a) == {agents[a].config.tools[i] : i \in 1..Len(agents[a].config.tools)}

\* C26: every tool function that Agent.run invokes is named in config.tools of
\* that agent, also when the registry of the agent holds more tools than the
\* configured list.
C26_OnlyConfiguredToolsInvoked ==
    \A v \in 1..Len(invoked) : invoked[v].call.name \in ConfiguredTools(invoked[v].agent)

\* C27: when run of an agent with structured output enabled returns, exactly
\* one finalization call was made in that run, after every call of the loop, and
\* it was made whether the loop ended on a completion without tool calls, at the
\* iteration bound or without any call; the content returned is the text of the
\* finalization completion.
C27_FinalizedHoweverLoopEnded ==
    (StructuredEnabled /\ run_pc = "returned") =>
        /\ Len(SynthesisCalls) = 1
        /\ Last(RunCalls).label = StrLabel("synthesis")
        /\ SynthesisCalls[1].outcome # None
        /\ run_result[1].content = SynthesisCalls[1].outcome[1].content
        /\ "structured_data" \in DOMAIN run_result[1]

\* the loop ended at the iteration bound on a completion that requests tools,
\* and the finalization completion has another text than that completion
C27_Witness ==
    /\ StructuredEnabled
    /\ run_pc = "returned"
    /\ Len(LoopCalls) = Config.max_iterations
    /\ EveryCompletionRequestsTools
    /\ Len(LoopCompletions) >= 1
    /\ Last(LoopCompletions).content = <<>>
    /\ run_result[1].content = <<"{", "}">>

\* C28: the tool_calls that run returns is the concatenation, in order, of the
\* requests of every completion the loop of that run received, the requests
\* that failed or named an unknown tool included, and holds no request of an
\* earlier run on the same agent.
C28_ToolCallsAreAllRequests ==
    run_pc = "returned" => run_result[1].tool_calls = ConcatToolCalls(LoopCompletions)

\* the second run on an agent whose first run returned requests: two
\* completions with requests, among them an unknown tool, undecodable
\* arguments and a call of foo that raised
C28_Witness ==
    /\ run_id = 2
    /\ run_agent = "A"
    /\ run_pc = "returned"
    /\ prev_result # None
    /\ prev_result[1].pc = "returned"
    /\ prev_result[1].result[1].tool_calls # <<>>
    /\ run_result[1].tool_calls = <<TC_ghost, TC_badjson, TC_nonmap, TC_dict, TC_foo>>
    /\ \E v \in 1..Len(invoked) : invoked[v].run = 2 /\ invoked[v].raised

\* a log entry written before an agent runs, and one written after it returned
IsStartEntry(e) == e.input # None /\ e.output = None
IsCompleteEntry(e) == e.input = None /\ e.output # None

\* entries alternate start, complete; the k-th pair names the agent of the k-th
\* Agent.run call
LogAlternates(log) ==
    \A n \in 1..Len(log) :
        /\ log[n].agent = run_inputs[(n + 1) \div 2].agent
        /\ IF n % 2 = 1 THEN IsStartEntry(log[n]) ELSE IsCompleteEntry(log[n])

\* C29: in the execution log every Agent.run call is bracketed by a start
\* entry written before the run and a complete entry written after it
\* returned: entries alternate start, complete, in call order; while a run is
\* under way, and for good when it raised, the log ends with the start entry of
\* that run; the log that execute returns on a fresh workflow has twice as many
\* entries as there were Agent.run calls.
C29_LogBracketsRuns ==
    /\ LogAlternates(execution_log)
    /\ Len(execution_log) \in {2 * Len(run_inputs) - 1, 2 * Len(run_inputs)}
    /\ (run_pc \in {"loop", "tool", "raised"}) =>
            /\ Len(execution_log) = 2 * Len(run_inputs) - 1
            /\ IsStartEntry(Last(execution_log))
            /\ Last(execution_log).agent = run_agent
    /\ (wf_pc = "returned" /\ log_start = 0) =>
            /\ LogAlternates(wf_result[1].execution_log)
            /\ Len(wf_result[1].execution_log) = 2 * Len(run_inputs)

\* a hierarchical execute whose second specialist's run raised after tool
\* functions had been invoked: five entries, the last one the start entry of that specialist
C29_Witness ==
    /\ wf_type = "hierarchical"
    /\ run_pc = "raised"
    /\ Len(run_inputs) = 3
    /\ Len(execution_log) = 5
    /\ Len(invoked) >= 1

\* the outputs of the specialist runs that returned before the k-th Agent.run
\* call of a hierarchical execute, one per run, in call order
OutputsBefore(k) ==
    [m \in 1..(k - 2) |->
        [k |-> execution_log[2 * (m + 1)].agent,
         v |-> execution_log[2 * (m + 1)].output[1].content]]

\* C30: in HierarchicalWorkflow.execute every specialist's task embeds the
\* original task, the plan text and the outputs of exactly the specialist runs
\* made before it, and the supervisor's synthesis task embeds the plan text and
\* one output for every specialist run made, in call order.
C30_TasksEmbedEveryOutput ==
    wf_type = "hierarchical" =>
        \A k \in 2..Len(run_inputs) :
            LET plan == execution_log[2].output[1].content
                start == execution_log[2 * k - 1]
            IN
            run_inputs[k].message =
                IF start.step = <<"supervisor_synthesis_start">>
                THEN SynthesisTask(task, plan, OutputsBefore(k))
                ELSE SpecialistTask(task, plan, OutputsBefore(k), start.agent)

====
